---------------------------- MODULE Spec2Model ----------------------------
(***************************************************************************)
(* The story-to-storybook pipeline of supabase/functions/story-to-video:   *)
(* scene splitting, dialogue parsing, and the per-page assembly loop of    *)
(* the Deno.serve handler, in its direct-generation variant (every image   *)
(* requested from Runware) and its reuse-and-placeholder variant (the      *)
(* uploaded image on the last page, a local placeholder elsewhere), and    *)
(* the handler of unnamed/part_006, which holds one Runware SDK connection *)
(* for the whole request.                                                  *)
(*                                                                         *)
(* A JavaScript string is a sequence of one-character strings; a byte      *)
(* array and a "binary string" are sequences of numbers 0..255.  One step  *)
(* of the handler is the code between two awaits on a remote call.         *)
(***************************************************************************)
EXTENDS Integers, Sequences, FiniteSets, TLC

VARIABLES
    strategy,      \* which handler is deployed: "direct", "placeholder", "sdk",
                   \* "perPage", "rest"
    env,           \* Deno.env: which credentials are set
    request,       \* the request being handled
    pc,            \* where the handler waits: "idle", "awaitAudio", ..., "done"
    scenes,        \* const scenes = splitScenes(storyText)
    index,         \* the page loop's index (0-based)
    storybook,     \* const storybook = []
    audioBase64,   \* the current page's audio, once encoded
    calls,         \* the remote calls issued so far, in order
    replies,       \* what each of them came back with, in the same order
    didSplit,      \* whether splitScenes has been called
    response,      \* the Response returned, once pc = "done"
    runware,       \* let runware = null, and the state of its connection
    imageBase64,   \* let imageBase64 = "", while the handler disconnects
    closed,        \* whether disconnect() was called on that runware
    caught,        \* the error of the catch that is waiting for its disconnect
    arg,           \* the argument a function is called with on its own
    applied,       \* the function called with arg, and what it returned
    lastIndex,     \* DIALOGUE_REGEX.lastIndex, the one state of the pattern
    history,       \* the calls of parseSceneLines so far and their results
    pages,         \* Storybook: const pages = storybook.storybook
    currentPage,   \* Storybook: const [currentPage, setCurrentPage]
    audioRef,      \* Storybook: the state of the <audio> element of the page
    turns,         \* Storybook: the clicks and ended audios so far, each with
                   \* the page before and after it and the number of pages
    view,          \* what React shows: "upload" (<ImageUpload> and the
                   \* results), "storybook" (a page), "empty" (<Storybook>
                   \* returned null), "crashed" (a render threw)
    app,           \* App: description, story, audioUrl, storybook, loading,
                   \* error
    invocations,   \* App: the calls of handleImageSelect so far, each with
                   \* the step it is awaiting
    storybookProp  \* App: the value of its storybook state, which the next
                   \* render hands to <Storybook>

\* the state of the functions called on their own
pureVars == <<arg, applied, lastIndex, history>>

\* the state of a handler
handlerVars == <<strategy, env, request, pc, scenes, index, storybook,
                 audioBase64, calls, replies, didSplit, response, runware,
                 imageBase64, closed, caught>>

\* the state of the Storybook component
viewerVars == <<pages, currentPage, audioRef, turns, view>>

\* the state of the App component
appVars == <<app, invocations, storybookProp>>

\* the state of the browser
uiVars == <<viewerVars, appVars>>

vars == <<handlerVars, pureVars, uiVars>>

-----------------------------------------------------------------------------
(* Bounds of the model.                                                    *)

\* Every story text over StoryChars of at most this length is a request.
MaxStoryLen == 5

StoryChars == {"a", " ", "\n"}

\* Every string over ArgChars of at most this length is an argument of the
\* functions called on their own.
MaxArgLen == 5

ArgChars == {"A", "1", "?", ":", " ", "\n", "\r"}

-----------------------------------------------------------------------------
(* Strings.                                                                *)

LowerLetters ==
    {"a","b","c","d","e","f","g","h","i","j","k","l","m",
     "n","o","p","q","r","s","t","u","v","w","x","y","z"}

UpperLetters ==
    {"A","B","C","D","E","F","G","H","I","J","K","L","M",
     "N","O","P","Q","R","S","T","U","V","W","X","Y","Z"}

Digits == {"0","1","2","3","4","5","6","7","8","9"}

\* [A-Za-z]
IsLetter(c) == c \in LowerLetters \cup UpperLetters

\* \w
IsWordChar(c) == IsLetter(c) \/ c \in Digits \/ c = "_"

\* [\w\- ]
IsSpeakerChar(c) == IsWordChar(c) \/ c = "-" \/ c = " "

\* the characters outside the escapes of a string here, each written by its
\* Unicode abbreviation: U+000B, U+00A0, U+1680, U+2000 to U+200A, U+202F,
\* U+205F, U+3000, U+FEFF
UnicodeSpaces ==
    {"VT", "NBSP", "OGHAM", "NQSP", "MQSP", "ENSP", "EMSP", "3MSP", "4MSP",
     "6MSP", "FSP", "PSP", "THSP", "HSP", "NNBSP", "MMSP", "IDSP", "BOM"}

\* U+2028 and U+2029
LineSeparators == {"LS", "PS"}

\* \s, and the characters String.prototype.trim removes
WhitespaceChars ==
    {" ", "\t", "\n", "\r", "\f"} \cup UnicodeSpaces \cup LineSeparators

IsWhitespace(c) == c \in WhitespaceChars

\* the characters "." does not match
IsLineTerminator(c) == c \in {"\n", "\r"} \cup LineSeparators

AllWhitespace(s) == \A i \in 1..Len(s) : IsWhitespace(s[i])

\* String.prototype.trim
Trim(s) ==
    LET keep == {i \in 1..Len(s) : ~IsWhitespace(s[i])}
    IN  IF keep = {} THEN <<>>
        ELSE LET lo == CHOOSE i \in keep : \A j \in keep : i <= j
                 hi == CHOOSE i \in keep : \A j \in keep : j <= i
             IN  SubSeq(s, lo, hi)

\* String.prototype.split with a non-empty separator: p is where the current
\* piece starts, q where the separator is looked for next.
RECURSIVE SplitFrom(_, _, _, _)
SplitFrom(s, sep, p, q) ==
    IF q + Len(sep) - 1 > Len(s)
    THEN <<SubSeq(s, p, Len(s))>>
    ELSE IF SubSeq(s, q, q + Len(sep) - 1) = sep
         THEN <<SubSeq(s, p, q - 1)>>
              \o SplitFrom(s, sep, q + Len(sep), q + Len(sep))
         ELSE SplitFrom(s, sep, p, q + 1)

\* story.split(sep, 2): nothing after the second piece
Split_Limit2(s, sep) ==
    LET all == SplitFrom(s, sep, 1, 1)
    IN  IF Len(all) <= 2 THEN all ELSE SubSeq(all, 1, 2)

Split(s, sep) == SplitFrom(s, sep, 1, 1)

StartsWith(s, prefix) ==
    /\ Len(s) >= Len(prefix)
    /\ SubSeq(s, 1, Len(prefix)) = prefix

SceneSeparator == <<"\n", "\n">>

\* splitScenes without the filter of empty scenes
splitScenes_NoFilter(story) ==
    LET parts == Split(story, SceneSeparator)
    IN  [i \in 1..Len(parts) |-> Trim(parts[i])]

\* splitScenes without the trim of each piece
splitScenes_NoTrim(story) ==
    LET parts == Split(story, SceneSeparator)
    IN  SelectSeq(parts, LAMBDA s : Len(s) > 0)

\* function splitScenes(story): split on "\n\n", trim, drop the empty ones
splitScenes(story) ==
    LET parts == Split(story, SceneSeparator)
        trimmed == [i \in 1..Len(parts) |-> Trim(parts[i])]
    IN  SelectSeq(trimmed, LAMBDA s : Len(s) > 0)

-----------------------------------------------------------------------------
(* Dialogue parsing.                                                       *)

Narrator == <<"N", "a", "r", "r", "a", "t", "o", "r">>

\* the {0,48} of DIALOGUE_REGEX
MaxSpeakerTail == 48

NoMatch == [matched |-> FALSE, g1 |-> <<>>, g2 |-> <<>>]

MinOf(S) == CHOOSE x \in S : \A y \in S : x <= y
MaxOf(S) == CHOOSE x \in S : \A y \in S : y <= x

\* a pattern whose speaker class admits ":" too and which takes the last
\* colon of the line for its ":"
DIALOGUE_REGEX_LastColon(line) ==
    LET n == Len(line)
        colons == {i \in 1..n : line[i] = ":"}
    IN  IF colons = {} THEN NoMatch
        ELSE
        LET c == MaxOf(colons)
            heads == {h \in (0..(c - 1)) \X (0..MaxSpeakerTail) :
                        /\ h[1] + 1 + h[2] <= c - 1
                        /\ AllWhitespace(SubSeq(line, 1, h[1]))
                        /\ IsLetter(line[h[1] + 1])
                        /\ \A i \in (h[1] + 2)..(h[1] + 1 + h[2]) :
                              IsSpeakerChar(line[i]) \/ line[i] = ":"
                        /\ AllWhitespace(SubSeq(line, h[1] + 2 + h[2], c - 1))}
            tails == {t \in (0..(n - c)) \X (1..(n - c)) :
                        /\ t[1] + t[2] <= n - c
                        /\ AllWhitespace(SubSeq(line, c + 1, c + t[1]))
                        /\ \A i \in (c + t[1] + 1)..(c + t[1] + t[2]) :
                              ~IsLineTerminator(line[i])
                        /\ AllWhitespace(SubSeq(line, c + t[1] + t[2] + 1, n))}
        IN  IF heads = {} \/ tails = {} THEN NoMatch
            ELSE
            LET w == MaxOf({h[1] : h \in heads})
                k == MaxOf({h[2] : h \in {x \in heads : x[1] = w}})
                j == MaxOf({t[1] : t \in tails})
                m == MinOf({t[2] : t \in {x \in tails : x[1] = j}})
            IN  [matched |-> TRUE,
                 g1 |-> SubSeq(line, w + 1, w + 1 + k),
                 g2 |-> SubSeq(line, c + j + 1, c + j + m)]

\* a pattern with [\w\- ]* for the rest of the speaker: no bound on its length
DIALOGUE_REGEX_NoBound(line) ==
    LET n == Len(line)
        colons == {i \in 1..n : line[i] = ":"}
    IN  IF colons = {} THEN NoMatch
        ELSE
        LET c == MinOf(colons)
            heads == {h \in (0..(c - 1)) \X (0..(c - 1)) :
                        /\ h[1] + 1 + h[2] <= c - 1
                        /\ AllWhitespace(SubSeq(line, 1, h[1]))
                        /\ IsLetter(line[h[1] + 1])
                        /\ \A i \in (h[1] + 2)..(h[1] + 1 + h[2]) :
                              IsSpeakerChar(line[i])
                        /\ AllWhitespace(SubSeq(line, h[1] + 2 + h[2], c - 1))}
            tails == {t \in (0..(n - c)) \X (1..(n - c)) :
                        /\ t[1] + t[2] <= n - c
                        /\ AllWhitespace(SubSeq(line, c + 1, c + t[1]))
                        /\ \A i \in (c + t[1] + 1)..(c + t[1] + t[2]) :
                              ~IsLineTerminator(line[i])
                        /\ AllWhitespace(SubSeq(line, c + t[1] + t[2] + 1, n))}
        IN  IF heads = {} \/ tails = {} THEN NoMatch
            ELSE
            LET w == MaxOf({h[1] : h \in heads})
                k == MaxOf({h[2] : h \in {x \in heads : x[1] = w}})
                j == MaxOf({t[1] : t \in tails})
                m == MinOf({t[2] : t \in {x \in tails : x[1] = j}})
            IN  [matched |-> TRUE,
                 g1 |-> SubSeq(line, w + 1, w + 1 + k),
                 g2 |-> SubSeq(line, c + j + 1, c + j + m)]

\* a pattern with (.*?) for the text: nothing need follow the colon
DIALOGUE_REGEX_EmptyText(line) ==
    LET n == Len(line)
        colons == {i \in 1..n : line[i] = ":"}
    IN  IF colons = {} THEN NoMatch
        ELSE
        LET c == MinOf(colons)
            heads == {h \in (0..(c - 1)) \X (0..MaxSpeakerTail) :
                        /\ h[1] + 1 + h[2] <= c - 1
                        /\ AllWhitespace(SubSeq(line, 1, h[1]))
                        /\ IsLetter(line[h[1] + 1])
                        /\ \A i \in (h[1] + 2)..(h[1] + 1 + h[2]) :
                              IsSpeakerChar(line[i])
                        /\ AllWhitespace(SubSeq(line, h[1] + 2 + h[2], c - 1))}
            tails == {t \in (0..(n - c)) \X (0..(n - c)) :
                        /\ t[1] + t[2] <= n - c
                        /\ AllWhitespace(SubSeq(line, c + 1, c + t[1]))
                        /\ \A i \in (c + t[1] + 1)..(c + t[1] + t[2]) :
                              ~IsLineTerminator(line[i])
                        /\ AllWhitespace(SubSeq(line, c + t[1] + t[2] + 1, n))}
        IN  IF heads = {} \/ tails = {} THEN NoMatch
            ELSE
            LET w == MaxOf({h[1] : h \in heads})
                k == MaxOf({h[2] : h \in {x \in heads : x[1] = w}})
                j == MaxOf({t[1] : t \in tails})
                m == MinOf({t[2] : t \in {x \in tails : x[1] = j}})
            IN  [matched |-> TRUE,
                 g1 |-> SubSeq(line, w + 1, w + 1 + k),
                 g2 |-> SubSeq(line, c + j + 1, c + j + m)]

\* const DIALOGUE_REGEX = /^\s*([A-Za-z][\w\- ]{0,48})\s*:\s*(.+?)\s*$/
\* applied to one line.  Nothing the pattern allows before its ":" is a colon,
\* so the ":" of a match is the first colon c of the line.  A head <<w, k>> is
\* w characters for ^\s* and k for [\w\- ]{0,48}, the rest up to c for \s*; a
\* tail <<j, m>> is j characters for \s* and m for (.+?), the rest for \s*$.
\* Backtracking prefers more for a greedy quantifier and less for the lazy one.
DIALOGUE_REGEX(line) ==
    LET n == Len(line)
        colons == {i \in 1..n : line[i] = ":"}
    IN  IF colons = {} THEN NoMatch
        ELSE
        LET c == MinOf(colons)
            heads == {h \in (0..(c - 1)) \X (0..MaxSpeakerTail) :
                        /\ h[1] + 1 + h[2] <= c - 1
                        /\ AllWhitespace(SubSeq(line, 1, h[1]))
                        /\ IsLetter(line[h[1] + 1])
                        /\ \A i \in (h[1] + 2)..(h[1] + 1 + h[2]) :
                              IsSpeakerChar(line[i])
                        /\ AllWhitespace(SubSeq(line, h[1] + 2 + h[2], c - 1))}
            tails == {t \in (0..(n - c)) \X (1..(n - c)) :
                        /\ t[1] + t[2] <= n - c
                        /\ AllWhitespace(SubSeq(line, c + 1, c + t[1]))
                        /\ \A i \in (c + t[1] + 1)..(c + t[1] + t[2]) :
                              ~IsLineTerminator(line[i])
                        /\ AllWhitespace(SubSeq(line, c + t[1] + t[2] + 1, n))}
        IN  IF heads = {} \/ tails = {} THEN NoMatch
            ELSE
            LET w == MaxOf({h[1] : h \in heads})
                k == MaxOf({h[2] : h \in {x \in heads : x[1] = w}})
                j == MaxOf({t[1] : t \in tails})
                m == MinOf({t[2] : t \in {x \in tails : x[1] = j}})
            IN  [matched |-> TRUE,
                 g1 |-> SubSeq(line, w + 1, w + 1 + k),
                 g2 |-> SubSeq(line, c + j + 1, c + j + m)]

\* the loop body without if (!trimmed) continue
ParseLine_KeepBlank(line) ==
    LET trimmed == Trim(line)
        match == DIALOGUE_REGEX(trimmed)
    IN  IF match.matched
        THEN <<[speaker |-> Trim(match.g1), text |-> Trim(match.g2)]>>
        ELSE <<[speaker |-> Narrator, text |-> trimmed]>>

\* the loop body without its else branch: only dialogue is emitted
ParseLine_SkipUnmatched(line) ==
    LET trimmed == Trim(line)
        match == DIALOGUE_REGEX(trimmed)
    IN  IF trimmed = <<>> THEN <<>>
        ELSE IF match.matched
             THEN <<[speaker |-> Trim(match.g1), text |-> Trim(match.g2)]>>
             ELSE <<>>

\* the else branch pushing the line as it was read, not trimmed
ParseLine_NarratorWholeLine(line) ==
    LET trimmed == Trim(line)
        match == DIALOGUE_REGEX(trimmed)
    IN  IF trimmed = <<>> THEN <<>>
        ELSE IF match.matched
             THEN <<[speaker |-> Trim(match.g1), text |-> Trim(match.g2)]>>
             ELSE <<[speaker |-> Narrator, text |-> line]>>

\* DIALOGUE_REGEX.exec(trimmed) of a pattern with the g flag: the search
\* starts at lastIndex, where "^" matches only if it is 0, and a match moves
\* lastIndex to its end
Match_GlobalExec(line, lastIdx) ==
    IF lastIdx > 0
    THEN [result |-> NoMatch, lastIndex |-> 0]
    ELSE [result |-> DIALOGUE_REGEX(line),
          lastIndex |-> IF DIALOGUE_REGEX(line).matched THEN Len(line) ELSE 0]

\* trimmed.match(DIALOGUE_REGEX) when the pattern's lastIndex is lastIdx: the
\* pattern has neither the g nor the y flag, so the search starts at 0 and
\* lastIndex stays as it is
Match(line, lastIdx) ==
    [result |-> DIALOGUE_REGEX(line), lastIndex |-> lastIdx]

\* the body of the loop of parseSceneLines, for one line of the scene: what
\* it pushes and what it leaves in lastIndex
ParseLineAt(line, lastIdx) ==
    LET trimmed == Trim(line)
        match == Match(trimmed, lastIdx)
    IN  IF trimmed = <<>> THEN [lines |-> <<>>, lastIndex |-> lastIdx]
        ELSE IF match.result.matched
             THEN [lines |-> <<[speaker |-> Trim(match.result.g1),
                                text |-> Trim(match.result.g2)]>>,
                   lastIndex |-> match.lastIndex]
             ELSE [lines |-> <<[speaker |-> Narrator, text |-> trimmed]>>,
                   lastIndex |-> match.lastIndex]

\* the loop of parseSceneLines over the lines ls, from lastIndex = lastIdx
RECURSIVE ParseLinesAt(_, _)
ParseLinesAt(ls, lastIdx) ==
    IF ls = <<>> THEN [lines |-> <<>>, lastIndex |-> lastIdx]
    ELSE LET first == ParseLineAt(Head(ls), lastIdx)
             rest == ParseLinesAt(Tail(ls), first.lastIndex)
         IN  [lines |-> first.lines \o rest.lines,
              lastIndex |-> rest.lastIndex]

\* what the loop body pushes for one line of the scene
ParseLine(line) == ParseLineAt(line, 0).lines

RECURSIVE ParseLines(_)
ParseLines(ls) ==
    IF ls = <<>> THEN <<>> ELSE ParseLine(Head(ls)) \o ParseLines(Tail(ls))

\* function parseSceneLines(sceneText)
parseSceneLines(sceneText) == ParseLines(Split(sceneText, <<"\n">>))

-----------------------------------------------------------------------------
(* Base64.                                                                 *)

Base64Chars ==
    <<"A","B","C","D","E","F","G","H","I","J","K","L","M","N","O","P",
      "Q","R","S","T","U","V","W","X","Y","Z","a","b","c","d","e","f",
      "g","h","i","j","k","l","m","n","o","p","q","r","s","t","u","v",
      "w","x","y","z","0","1","2","3","4","5","6","7","8","9","+","/">>

B64(v) == Base64Chars[v + 1]

\* btoa of a binary string given by its character codes (all below 256):
\* output character i belongs to the group of three bytes g; a byte the
\* group lacks counts as 0 where it shares a character and gives "=" where
\* it would have one of its own
btoa(b) ==
    LET n == Len(b)
        Byte(k) == IF k <= n THEN b[k] ELSE 0
        Char(i) ==
            LET g == (i - 1) \div 4
                r == (i - 1) % 4
                b1 == Byte(3 * g + 1)
                b2 == Byte(3 * g + 2)
                b3 == Byte(3 * g + 3)
            IN  IF r = 0 THEN B64(b1 \div 4)
                ELSE IF r = 1 THEN B64((b1 % 4) * 16 + b2 \div 16)
                ELSE IF r = 2
                THEN IF 3 * g + 2 > n THEN "="
                     ELSE B64((b2 % 16) * 4 + b3 \div 64)
                ELSE IF 3 * g + 3 > n THEN "=" ELSE B64(b3 % 64)
    IN  [i \in 1..(4 * ((n + 2) \div 3)) |-> Char(i)]

chunkSize == 8192

Min(a, b) == IF a <= b THEN a ELSE b

\* a loop that steps by chunkSize + 1: it skips the byte after every chunk
RECURSIVE BinaryFromChunks_SkipAfterChunk(_, _)
BinaryFromChunks_SkipAfterChunk(bytes, i) ==
    IF i >= Len(bytes) THEN <<>>
    ELSE SubSeq(bytes, i + 1, Min(i + chunkSize, Len(bytes)))
         \o BinaryFromChunks_SkipAfterChunk(bytes, i + chunkSize + 1)

\* for (let i = 0; i < audioBytes.length; i += chunkSize)
\*   audioBinary += String.fromCharCode(...audioBytes.subarray(i, min(..)))
RECURSIVE BinaryFromChunks(_, _)
BinaryFromChunks(bytes, i) ==
    IF i >= Len(bytes) THEN <<>>
    ELSE SubSeq(bytes, i + 1, Min(i + chunkSize, Len(bytes)))
         \o BinaryFromChunks(bytes, i + chunkSize)

\* the audio of a page: btoa of the chunk-wise binary string
EncodeAudio(bytes) == btoa(BinaryFromChunks(bytes, 0))

\* the character codes of the svg template literal of createPlaceholderImage
PlaceholderSvg ==
    <<
       60, 115, 118, 103, 32, 119, 105, 100, 116, 104, 61, 34, 53, 49, 50, 34,
       32, 104, 101, 105, 103, 104, 116, 61, 34, 53, 49, 50, 34, 32, 120, 109,
       108, 110, 115, 61, 34, 104, 116, 116, 112, 58, 47, 47, 119, 119, 119, 46,
       119, 51, 46, 111, 114, 103, 47, 50, 48, 48, 48, 47, 115, 118, 103, 34,
       62, 10, 32, 32, 32, 32, 60, 114, 101, 99, 116, 32, 119, 105, 100, 116,
       104, 61, 34, 53, 49, 50, 34, 32, 104, 101, 105, 103, 104, 116, 61, 34,
       53, 49, 50, 34, 32, 102, 105, 108, 108, 61, 34, 35, 101, 48, 101, 55,
       102, 102, 34, 47, 62, 10, 32, 32, 32, 32, 60, 116, 101, 120, 116, 32,
       120, 61, 34, 50, 53, 54, 34, 32, 121, 61, 34, 50, 53, 54, 34, 32,
       102, 111, 110, 116, 45, 102, 97, 109, 105, 108, 121, 61, 34, 65, 114, 105,
       97, 108, 34, 32, 102, 111, 110, 116, 45, 115, 105, 122, 101, 61, 34, 50,
       52, 34, 32, 102, 105, 108, 108, 61, 34, 35, 54, 51, 54, 54, 102, 49,
       34, 32, 116, 101, 120, 116, 45, 97, 110, 99, 104, 111, 114, 61, 34, 109,
       105, 100, 100, 108, 101, 34, 32, 100, 111, 109, 105, 110, 97, 110, 116, 45,
       98, 97, 115, 101, 108, 105, 110, 101, 61, 34, 109, 105, 100, 100, 108, 101,
       34, 62, 10, 32, 32, 32, 32, 32, 32, 83, 116, 111, 114, 121, 32, 73,
       109, 97, 103, 101, 10, 32, 32, 32, 32, 60, 47, 116, 101, 120, 116, 62,
       10, 32, 32, 60, 47, 115, 118, 103, 62
    >>

\* function createPlaceholderImage()
createPlaceholderImage == btoa(PlaceholderSvg)

-----------------------------------------------------------------------------
(* Requests.                                                               *)

\* spec.md, Scenario A: three scenes, the second a line of dialogue
ScenarioA ==
    <<
      "H","e","l","l","o"," ","t","h","e","r","e",".","\n","\n",
      "A","l","i","c","e",":"," ","W","h","e","r","e"," ","a",
      "r","e"," ","w","e","?","\n","\n","N","a","r","r","a","t",
      "o","r"," ","v","o","i","c","e"," ","s","t","a","y","s",
      " ","i","m","p","l","i","c","i","t","."
    >>

\* spec.md, Scenario C: whitespace only
ScenarioC == <<" ", " ", " ", "\n", "\n", " ", " ">>

\* stories with whitespace that has no escape: a story of nothing else, and
\* one with a scene of nothing else
UnicodeStories ==
    {<<"VT">>,
     <<"NBSP", "LS">>,
     <<"a", "\n", "\n", "VT", "\n", "\n", "A", "NBSP", ":", "b", "PS">>}

Stories ==
    UNION {[1..n -> StoryChars] : n \in 0..MaxStoryLen}
      \cup {ScenarioA, ScenarioC} \cup UnicodeStories

DataUrlHead == <<"d","a","t","a",":","i","m","a","g","e","/">>
DataUrlTail == <<";","b","a","s","e","6","4",",">>

DataUrl(fmt, payload) == DataUrlHead \o fmt \o DataUrlTail \o payload

ImageFormats ==
    {<<"p","n","g">>, <<"j","p","e","g">>, <<"s","v","g","+","x","m","l">>}

\* base64 of the uploaded picture
Payload == <<"Q","U","J","D">>

\* originalImageData of the request body: absent, "", bare base64, a data URL
ImageInputs ==
    {[has |-> FALSE, data |-> <<>>],
     [has |-> TRUE, data |-> <<>>],
     [has |-> TRUE, data |-> Payload]}
      \cup {[has |-> TRUE, data |-> DataUrl(f, Payload)] : f \in ImageFormats}

Req(method, jsonOk, hasStory, story, img) ==
    [method |-> method, jsonOk |-> jsonOk,
     hasStoryText |-> hasStory, storyText |-> story,
     hasImage |-> img.has, originalImageData |-> img.data]

NoImage == [has |-> FALSE, data |-> <<>>]

NoRequest == Req("NONE", FALSE, FALSE, <<>>, NoImage)

Requests ==
    {Req("POST", TRUE, TRUE, s, img) : s \in Stories, img \in ImageInputs}
      \cup {Req("POST", TRUE, FALSE, <<>>, img) : img \in ImageInputs}
      \cup {Req("POST", FALSE, FALSE, <<>>, NoImage),
            Req("OPTIONS", FALSE, FALSE, <<>>, NoImage)}

-----------------------------------------------------------------------------
(* Replies of the remote services.                                         *)

\* Response.ok
Ok(status) == status \in 200..299

\* what fetch to ElevenLabs can come back with; a fetch that rejects has the
\* class, the name and the message (text) of what it rejects with; fits is
\* whether the engine
\* gets through the conversion of the body without exhausting its stack
NarrationReplies ==
    {[kind |-> "response", status |-> 200, bytes |-> <<73, 68, 51, 4>>,
      text |-> "", fits |-> TRUE, class |-> "", name |-> ""],
     [kind |-> "response", status |-> 200, bytes |-> <<>>, text |-> "",
      fits |-> TRUE, class |-> "", name |-> ""],
     [kind |-> "response", status |-> 200, bytes |-> <<73, 68, 51, 4>>,
      text |-> "", fits |-> FALSE, class |-> "", name |-> ""],
     [kind |-> "response", status |-> 401, bytes |-> <<>>,
      text |-> "quota_exceeded", fits |-> TRUE, class |-> "", name |-> ""],
     [kind |-> "networkError", status |-> 0, bytes |-> <<>>,
      text |-> "error sending request", fits |-> TRUE,
      class |-> "TypeError", name |-> "TypeError"],
     [kind |-> "networkError", status |-> 0, bytes |-> <<>>, text |-> "",
      fits |-> TRUE, class |-> "TypeError", name |-> "TypeError"],
     [kind |-> "networkError", status |-> 0, bytes |-> <<>>,
      text |-> "The signal has been aborted", fits |-> TRUE,
      class |-> "DOMException", name |-> "AbortError"]}

ImgReply(kind, status, text, json, errors, hasData, data) ==
    [kind |-> kind, status |-> status, text |-> text, json |-> json,
     errors |-> errors, hasData |-> hasData, data |-> data]

Picture == <<"a","V","Z","C">>

\* what fetch to Runware can come back with
ImageReplies ==
    {ImgReply("response", 200, "", TRUE, <<>>, TRUE,
              <<[hasImage |-> TRUE, imageBase64 |-> Picture]>>),
     ImgReply("response", 402, "insufficient_credits", TRUE, <<>>, FALSE, <<>>),
     ImgReply("response", 200, "", FALSE, <<>>, FALSE, <<>>),
     ImgReply("response", 200, "", TRUE, <<"invalidModel">>, FALSE, <<>>),
     ImgReply("response", 200, "", TRUE, <<"invalidModel">>, TRUE,
              <<[hasImage |-> TRUE, imageBase64 |-> Picture]>>),
     ImgReply("response", 200, "", TRUE, <<>>, FALSE, <<>>),
     ImgReply("response", 200, "", TRUE, <<>>, TRUE, <<>>),
     ImgReply("response", 200, "", TRUE, <<>>, TRUE,
              <<[hasImage |-> FALSE, imageBase64 |-> <<>>]>>),
     ImgReply("response", 200, "", TRUE, <<>>, TRUE,
              <<[hasImage |-> TRUE, imageBase64 |-> <<>>]>>),
     ImgReply("networkError", 0, "", FALSE, <<>>, FALSE, <<>>)}

\* what the body of a Runware answer parses to: an array, an object or
\* null, and the elements when it is an array
Parsed(type, items) == [type |-> type, items |-> items]

RestReply(kind, status, text, parses, body) ==
    [kind |-> kind, status |-> status, text |-> text, parses |-> parses,
     body |-> body]

\* what fetch to Runware can come back with, as the handler of
\* unnamed/part_005 reads it: the status, the text of a refusal, and the
\* parsed body, of which {data: [...]} and {errors: [...]} are objects
RestReplies ==
    {RestReply("response", 200, "", TRUE,
               Parsed("array", <<[hasImage |-> TRUE, imageBase64 |-> Picture]>>)),
     RestReply("response", 200, "", TRUE,
               Parsed("array", <<[hasImage |-> TRUE, imageBase64 |-> <<>>]>>)),
     RestReply("response", 200, "", TRUE,
               Parsed("array", <<[hasImage |-> FALSE, imageBase64 |-> <<>>]>>)),
     RestReply("response", 200, "", TRUE, Parsed("array", <<>>)),
     RestReply("response", 200, "", TRUE, Parsed("object", <<>>)),
     RestReply("response", 200, "", TRUE, Parsed("null", <<>>)),
     RestReply("response", 200, "", FALSE, Parsed("null", <<>>)),
     RestReply("response", 402, "insufficient_credits", TRUE,
               Parsed("object", <<>>)),
     RestReply("networkError", 0, "error sending request", FALSE,
               Parsed("null", <<>>))}

-----------------------------------------------------------------------------
(* Errors and responses.                                                   *)

\* An error message: the template literal of the source and what fills it.
Msg(template, page, inner, status, detail) ==
    [template |-> template, page |-> page, inner |-> inner,
     status |-> status, detail |-> detail]

Text(template) == Msg(template, 0, "", 0, "")

\* an error as the catch sees it: class is error.constructor.name, which is
\* the name unless the name was assigned (a DOMException named "AbortError")
ErrorObject(class, name, message) ==
    [thrown |-> TRUE, class |-> class, name |-> name, message |-> message]

\* an engine error or new Error(...): the name is that of the constructor
Err(thrown, name, message) ==
    [thrown |-> thrown, class |-> name, name |-> name, message |-> message]

NoError == Err(FALSE, "", Text(""))

NoResponse == [status |-> 0, body |-> [none |-> TRUE]]

\* new Response(null, {status: 200, headers: corsHeaders})
OptionsResponse == [status |-> 200, body |-> [null |-> TRUE]]

\* new Response(JSON.stringify({error: ...}), {status: ...})
ErrorResponse(status, message) ==
    [status |-> status, body |-> [error |-> message]]

\* new Response(JSON.stringify({success: true, totalPages, storybook}), ...)
SuccessResponse(sb) ==
    [status |-> 200,
     body |-> [success |-> TRUE, totalPages |-> Len(sb), storybook |-> sb]]

CallStackMessage == "Maximum call stack size exceeded"

\* String.prototype.includes
Includes(s, piece) ==
    \E i \in 1..(Len(s) - Len(piece) + 1) :
        SubSeq(s, i, i + Len(piece) - 1) = piece

\* error.message.includes("call stack"): the message is its template with
\* the texts that fill it
IncludesCallStack(message) ==
    \/ Includes(message.template, "call stack")
    \/ Includes(message.inner, "call stack")
    \/ Includes(message.detail, "call stack")

\* errorType of the catch: error.name; in the sdk variant
\* error?.constructor?.name || error?.name || typeof error, in the
\* placeholder variant the same ending in 'Error'
ErrorType(strat, error) ==
    IF strat \notin {"sdk", "placeholder"} THEN error.name
    ELSE IF error.class # "" THEN error.class
    ELSE IF error.name # "" THEN error.name
    ELSE IF strat = "sdk" THEN "object"
    ELSE "Error"

\* error.message || ..., for an Error object. With an empty message
\* extractErrorMessage of the sdk variant answers String(error), which is
\* then the name; the placeholder variant does the same unless that is
\* empty too; the other variants go to their fixed text at once
MessageOrFallback(strat, error) ==
    IF error.message.template # "" THEN error.message
    ELSE IF strat = "sdk" THEN Text(error.name)
    ELSE IF strat = "placeholder" /\ error.name # "" THEN Text(error.name)
    ELSE Text("Failed to process story to storybook")

\* a catch that forgets {status: 500}: the Response defaults to 200
CatchResponse_DefaultStatus(strat, error) ==
    [status |-> 200,
     body |-> [error |-> MessageOrFallback(strat, error),
               errorType |-> ErrorType(strat, error),
               details |-> "error.stack"]]

\* the catch of the handler: every variant but the placeholder one rewrites
\* a call-stack RangeError, the placeholder variant reports every message as
\* it is
CatchResponse(strat, error) ==
    LET tooLarge == /\ strat # "placeholder"
                    /\ error.name = "RangeError"
                    /\ IncludesCallStack(error.message)
        detailedError ==
            IF tooLarge
            THEN Text("Data size too large for processing. Try generating a shorter story with fewer pages.")
            ELSE MessageOrFallback(strat, error)
    IN  [status |-> 500,
         body |-> [error |-> detailedError,
                   errorType |-> ErrorType(strat, error),
                   details |-> "error.stack"]]

-----------------------------------------------------------------------------
(* The checks before the page loop.                                        *)

\* if (!storyText)
MissingStoryText(req) == ~req.hasStoryText \/ req.storyText = <<>>

\* the placeholder variant asking for the Runware key too
MissingCredential_BothAlways(strat, e) ==
    IF ~e.elevenlabs THEN "ELEVENLABS_API_KEY"
    ELSE IF ~e.runware THEN "RUNWARE_API_KEY"
    ELSE ""

\* the first credential the variant reads and finds unset, "" if none
MissingCredential(strat, e) ==
    IF ~e.elevenlabs THEN "ELEVENLABS_API_KEY"
    ELSE IF strat # "placeholder" /\ ~e.runware THEN "RUNWARE_API_KEY"
    ELSE ""

\* the credential checks moved in front of the storyText check
Preflight_CredentialsFirst(req, e, strat) ==
    IF req.method = "OPTIONS" THEN "options"
    ELSE IF ~req.jsonOk THEN "badJson"
    ELSE IF MissingCredential(strat, e) # "" THEN "missingCredential"
    ELSE IF MissingStoryText(req) THEN "missingInput"
    ELSE IF splitScenes(req.storyText) = <<>> THEN "noScenes"
    ELSE "proceed"

\* the handler up to the page loop: which return, if any, it takes
Preflight(req, e, strat) ==
    IF req.method = "OPTIONS" THEN "options"
    ELSE IF ~req.jsonOk THEN "badJson"
    ELSE IF MissingStoryText(req) THEN "missingInput"
    ELSE IF MissingCredential(strat, e) # "" THEN "missingCredential"
    ELSE IF splitScenes(req.storyText) = <<>> THEN "noScenes"
    ELSE "proceed"

ConfigurationMessage(key) ==
    IF key = "ELEVENLABS_API_KEY"
    THEN Text("ELEVENLABS_API_KEY not configured")
    ELSE Text("RUNWARE_API_KEY not configured")

\* the response of each early return
EarlyResponse(kind, e, strat) ==
    CASE kind = "options" -> OptionsResponse
      [] kind = "badJson" ->
           CatchResponse(strat, Err(TRUE, "SyntaxError",
                                    Text("Unexpected end of JSON input")))
      [] kind = "missingInput" ->
           ErrorResponse(400, Text("storyText is required"))
      [] kind = "missingCredential" ->
           ErrorResponse(500, ConfigurationMessage(MissingCredential(strat, e)))
      [] kind = "noScenes" ->
           ErrorResponse(400, Text("No scenes found. Use blank lines (\\n\\n) to separate scenes."))

-----------------------------------------------------------------------------
(* The page loop.                                                          *)

\* sceneText.substring(0, 200) of the image prompt
PromptLen == 200

\* fetch("https://api.elevenlabs.io/v1/text-to-speech/...", {text: sceneText})
NarrateCall(idx, sceneText) ==
    [kind |-> "narrate", page |-> idx + 1, text |-> sceneText]

\* fetch("https://api.runware.ai/v1", ...) with the prompt's scene prefix
\* unnamed/part_005, what the image step throws: the rejection of fetch,
\* the refusal with its text, the SyntaxError of imageResponse.json(), the
\* TypeError of imageData[0] on null; nothing else of the body is tested
RestImageError(reply, idx) ==
    IF reply.kind = "networkError"
    THEN Err(TRUE, "TypeError", Text(reply.text))
    ELSE IF ~Ok(reply.status)
    THEN Err(TRUE, "Error",
             Msg("Failed to generate image for page ${index + 1}: ${errorText}",
                 idx + 1, "", 0, reply.text))
    ELSE IF ~reply.parses
    THEN Err(TRUE, "SyntaxError", Text("Unexpected end of JSON input"))
    ELSE IF reply.body.type = "null"
    THEN Err(TRUE, "TypeError",
             Text("Cannot read properties of null (reading '0')"))
    ELSE NoError

\* imageData[0]?.imageBase64 || ""
RestImage(reply) ==
    IF /\ reply.body.type = "array"
       /\ Len(reply.body.items) > 0
       /\ reply.body.items[1].hasImage
    THEN reply.body.items[1].imageBase64
    ELSE <<>>

IllustrateCall(idx, sceneText) ==
    [kind |-> "illustrate", page |-> idx + 1,
     text |-> SubSeq(sceneText, 1, Min(PromptLen, Len(sceneText)))]

\* a handler that never looks at audioResponse.ok
AudioError_IgnoreStatus(reply, idx) ==
    IF reply.kind = "networkError"
    THEN ErrorObject(reply.class, reply.name, Text(reply.text))
    ELSE IF reply.kind = "response" /\ Ok(reply.status) /\ ~reply.fits
    THEN Err(TRUE, "RangeError", Text(CallStackMessage))
    ELSE NoError

\* what the narration step throws: fetch rejecting, if (!audioResponse.ok),
\* or the conversion of the body running out of stack
AudioError(reply, idx) ==
    IF reply.kind = "networkError"
    THEN ErrorObject(reply.class, reply.name, Text(reply.text))
    ELSE IF ~Ok(reply.status)
    THEN Err(TRUE, "Error",
             Msg("Failed to generate audio for page ${index + 1}: ${errorText}",
                 idx + 1, "", 0, reply.text))
    ELSE IF ~reply.fits
    THEN Err(TRUE, "RangeError", Text(CallStackMessage))
    ELSE NoError

Failure(template, status, detail) ==
    [thrown |-> TRUE, template |-> template, status |-> status,
     detail |-> detail]

NoFailure == [thrown |-> FALSE, template |-> "", status |-> 0, detail |-> ""]

\* the image step without its check of imageResult.errors
ImageFailure_NoErrorsCheck(reply) ==
    IF reply.kind = "networkError"
    THEN Failure("error sending request", 0, "")
    ELSE IF ~Ok(reply.status)
    THEN Failure("Runware API returned status ${imageResponse.status}: ${errorText}",
                 reply.status, reply.text)
    ELSE IF ~reply.json
    THEN Failure("Unexpected end of JSON input", 0, "")
    ELSE IF ~reply.hasData \/ Len(reply.data) = 0
    THEN Failure("No image data in Runware response. Check API quota and configuration.",
                 0, "")
    ELSE IF ~reply.data[1].hasImage \/ reply.data[1].imageBase64 = <<>>
    THEN Failure("Runware returned empty imageBase64. Check API response format.",
                 0, "")
    ELSE NoFailure

\* what the try block of the image step throws, in the order of its checks
ImageFailure(reply) ==
    IF reply.kind = "networkError"
    THEN Failure("error sending request", 0, "")
    ELSE IF ~Ok(reply.status)
    THEN Failure("Runware API returned status ${imageResponse.status}: ${errorText}",
                 reply.status, reply.text)
    ELSE IF ~reply.json
    THEN Failure("Unexpected end of JSON input", 0, "")
    ELSE IF Len(reply.errors) > 0
    THEN Failure("Image generation failed: ${JSON.stringify(imageResult.errors[0])}",
                 0, reply.errors[1])
    ELSE IF ~reply.hasData \/ Len(reply.data) = 0
    THEN Failure("No image data in Runware response. Check API quota and configuration.",
                 0, "")
    ELSE IF ~reply.data[1].hasImage \/ reply.data[1].imageBase64 = <<>>
    THEN Failure("Runware returned empty imageBase64. Check API response format.",
                 0, "")
    ELSE NoFailure

\* catch (imageError) { throw new Error(`Failed to generate image ...`) }
ImageError(reply, idx) ==
    LET inner == ImageFailure(reply)
    IN  IF inner.thrown
        THEN Err(TRUE, "Error",
                 Msg("Failed to generate image for page ${index + 1}: ${imageError.message}. Check Runware API key, quota, and configuration.",
                     idx + 1, inner.template, inner.status, inner.detail))
        ELSE NoError

\* the first page taken for the last one
isLastPage_First(idx, n) == idx = 0

\* const isLastPage = index === scenes.length - 1
isLastPage(idx, n) == idx = n - 1

\* originalImageData.replace(/^data:image\/[a-z]+;base64,/, ''): k is the
\* number of characters [a-z]+ takes
StripDataUrlPrefix(data) ==
    LET h == Len(DataUrlHead)
        t == Len(DataUrlTail)
        ks == {k \in 1..Len(data) :
                 /\ h + k + t <= Len(data)
                 /\ SubSeq(data, 1, h) = DataUrlHead
                 /\ \A i \in (h + 1)..(h + k) : data[i] \in LowerLetters
                 /\ SubSeq(data, h + k + 1, h + k + t) = DataUrlTail}
    IN  IF ks = {} THEN data
        ELSE SubSeq(data, h + MaxOf(ks) + t + 1, Len(data))

\* if (isLastPage && originalImageData) ... else createPlaceholderImage()
SelectImage(idx, n, req) ==
    IF isLastPage(idx, n) /\ req.hasImage /\ req.originalImageData # <<>>
    THEN StripDataUrlPrefix(req.originalImageData)
    ELSE createPlaceholderImage

\* a page numbered by the loop index itself
pageData_ZeroBased(idx, sceneText, lines, audio, image) ==
    [page |-> idx, text |-> sceneText, lines |-> lines,
     audioBase64 |-> audio, imageBase64 |-> image]

\* const pageData = {page: index + 1, text, lines, audioBase64, imageBase64}
pageData(idx, sceneText, lines, audio, image) ==
    [page |-> idx + 1, text |-> sceneText, lines |-> lines,
     audioBase64 |-> audio, imageBase64 |-> image]

-----------------------------------------------------------------------------
(* The image step of unnamed/part_006, through the Runware SDK.            *)

\* if (isLastPage && originalImageData)
ReusesUpload(idx, n, req) ==
    isLastPage(idx, n) /\ req.hasImage /\ req.originalImageData # <<>>

\* a value the SDK rejects with: typeof of it ("null" for null), whether
\* it has a message and that message, and what String() and JSON.stringify
\* make of it
Thrown(type, hasMessage, message, str, json) ==
    [type |-> type, hasMessage |-> hasMessage, message |-> message,
     str |-> str, json |-> json]

NothingThrown == Thrown("none", FALSE, "", "", "")

ThrownValues ==
    {Thrown("undefined", FALSE, "", "undefined", ""),
     Thrown("null", FALSE, "", "null", "null"),
     Thrown("string", FALSE, "", "socket closed", ""),
     Thrown("string", FALSE, "", "", ""),
     Thrown("number", FALSE, "", "0", "0"),
     Thrown("number", FALSE, "", "42", "42"),
     Thrown("boolean", FALSE, "", "false", "false"),
     Thrown("object", TRUE, "request timed out", "Error: request timed out",
            "{\"message\":\"request timed out\"}"),
     Thrown("object", TRUE, "", "Error", "{\"message\":\"\"}"),
     Thrown("object", TRUE, "boom", "[object Object]", "{\"message\":\"boom\"}"),
     Thrown("object", FALSE, "", "[object Object]", "{\"code\":\"insufficientCredits\"}"),
     Thrown("object", FALSE, "", "[object Object]", "{}")}

\* !error
Falsy(error) ==
    \/ error.type \in {"undefined", "null"}
    \/ error.type = "string" /\ error.str = ""
    \/ error.type \in {"number", "bigint"} /\ error.str \in {"0", "-0", "NaN"}
    \/ error.type = "boolean" /\ error.str = "false"

\* function extractErrorMessage(error)
extractErrorMessage(error) ==
    IF Falsy(error) THEN "Unknown error (null/undefined)"
    ELSE IF error.type = "string" THEN error.str
    ELSE IF error.hasMessage /\ error.message # "" THEN error.message
    ELSE IF error.str # "[object Object]" THEN error.str
    ELSE IF error.json # "" /\ error.json # "{}" THEN error.json
    ELSE "Error could not be serialized"

ImageUrl ==
    <<"h","t","t","p","s",":","/","/","i","m",".","r","u","n","w","a","r",
      "e",".","a","i","/","1",".","p","n","g">>

SdkReply(thrown, isNull, results) ==
    [kind |-> "sdk", thrown |-> thrown, isNull |-> isNull, results |-> results]

\* what runware.requestImages can settle with
SdkReplies ==
    {SdkReply(NothingThrown, FALSE,
              <<[imageBase64 |-> Picture, imageURL |-> <<>>]>>),
     SdkReply(NothingThrown, FALSE,
              <<[imageBase64 |-> <<>>, imageURL |-> ImageUrl]>>),
     SdkReply(NothingThrown, FALSE,
              <<[imageBase64 |-> <<>>, imageURL |-> <<>>]>>),
     SdkReply(NothingThrown, FALSE, <<>>),
     SdkReply(NothingThrown, TRUE, <<>>)}
      \cup {SdkReply(t, FALSE, <<>>) : t \in ThrownValues}

\* what fetch(imageResult.imageURL) can come back with; fits is whether the
\* engine can spread a chunk of the body into String.fromCharCode
DownloadReplies ==
    {[kind |-> "response", status |-> 200, bytes |-> <<137, 80, 78, 71>>,
      fits |-> TRUE],
     [kind |-> "response", status |-> 200, bytes |-> <<137, 80, 78, 71>>,
      fits |-> FALSE],
     [kind |-> "response", status |-> 200, bytes |-> <<>>, fits |-> TRUE],
     [kind |-> "response", status |-> 404, bytes |-> <<>>, fits |-> TRUE],
     [kind |-> "networkError", status |-> 0, bytes |-> <<>>, fits |-> TRUE]}

\* fetch(imageResult.imageURL)
DownloadCall(idx, url) == [kind |-> "download", page |-> idx + 1, text |-> url]

\* else if (imageResult.imageURL), after if (imageResult.imageBase64)
NeedsDownload(reply) ==
    /\ reply.thrown.type = "none"
    /\ ~reply.isNull
    /\ Len(reply.results) > 0
    /\ reply.results[1].imageBase64 = <<>>
    /\ reply.results[1].imageURL # <<>>

\* what the try block of the image step throws up to the download
SdkFailure(reply) ==
    IF reply.thrown.type # "none"
    THEN Failure(extractErrorMessage(reply.thrown), 0, "")
    ELSE IF reply.isNull \/ Len(reply.results) = 0
    THEN Failure("Runware SDK returned no images. This may indicate API quota exhausted or model unavailable.",
                 0, "")
    ELSE IF reply.results[1].imageBase64 = <<>>
            /\ reply.results[1].imageURL = <<>>
    THEN Failure("Runware returned invalid response: no imageBase64 or imageURL field found",
                 0, "")
    ELSE NoFailure

\* what the try block throws when the download has settled
DownloadFailure(reply) ==
    IF reply.kind = "networkError"
    THEN Failure("error sending request", 0, "")
    ELSE IF ~Ok(reply.status)
    THEN Failure("Failed to download image from URL. Status: ${urlResponse.status}",
                 reply.status, "")
    ELSE IF ~reply.fits
    THEN Failure(CallStackMessage, 0, "")
    ELSE NoFailure

\* catch (imageError) { throw new Error(`Image generation failed ...`) }
SdkError(inner, idx) ==
    IF inner.thrown
    THEN Err(TRUE, "Error",
             Msg("Image generation failed for page ${index + 1}: ${formattedMessage}",
                 idx + 1, inner.template, inner.status, inner.detail))
    ELSE NoError

\* await runware.disconnect(): a runware that was never created is not
\* touched, one whose disconnect throws stays as it was
AfterDisconnect(r, ok) ==
    IF r = "null" THEN "null" ELSE IF ok THEN "disconnected" ELSE r

\* ${imageError.message} of a value the SDK rejected with (get-story):
\* what has no message gives "undefined"
MessageOf(thrown) ==
    IF thrown.hasMessage THEN thrown.message ELSE "undefined"

\* what the try block of the image step of get-story throws up to the
\* download
PerPageFailure(reply) ==
    IF reply.thrown.type # "none"
    THEN Failure(MessageOf(reply.thrown), 0, "")
    ELSE IF reply.isNull \/ Len(reply.results) = 0
    THEN Failure("Runware SDK returned no images. Check API quota and model availability.",
                 0, "")
    ELSE IF reply.results[1].imageBase64 = <<>>
            /\ reply.results[1].imageURL = <<>>
    THEN Failure("Runware response missing both imageBase64 and imageURL fields.",
                 0, "")
    ELSE NoFailure

\* what it throws when the download has settled
PerPageDownloadFailure(reply) ==
    IF reply.kind = "networkError"
    THEN Failure("error sending request", 0, "")
    ELSE IF ~Ok(reply.status)
    THEN Failure("Failed to download image from URL: ${urlResponse.status}",
                 reply.status, "")
    ELSE IF ~reply.fits
    THEN Failure(CallStackMessage, 0, "")
    ELSE NoFailure

\* catch (imageError) { throw new Error(`Failed to generate image ...`) } of
\* get-story
PerPageError(inner, idx) ==
    IF inner.thrown
    THEN Err(TRUE, "Error",
             Msg("Failed to generate image for page ${index + 1}: ${imageError.message}. Check Runware API key, quota, and configuration.",
                 idx + 1, inner.template, inner.status, inner.detail))
    ELSE NoError

\* the same catch when requestImages has settled: imageError.name of
\* undefined or null throws in the catch itself
PerPageImageError(reply, idx) ==
    IF reply.thrown.type \in {"undefined", "null"}
    THEN Err(TRUE, "TypeError",
             Text("Cannot read properties of " \o reply.thrown.type
                    \o " (reading 'name')"))
    ELSE PerPageError(PerPageFailure(reply), idx)

-----------------------------------------------------------------------------
(* The handler, one action per stretch of code between awaited replies.    *)

NotApplied == [fn |-> "none", value |-> <<>>]

\* App: the useState initial values ('' and null are both "")
InitialApp ==
    [description |-> "", story |-> "", audioUrl |-> "", storybook |-> "",
     loading |-> FALSE, error |-> ""]

\* the browser before anything is selected or shown
NothingRendered ==
    /\ pages = <<>>
    /\ currentPage = 0
    /\ audioRef = "none"
    /\ turns = <<>>
    /\ view = "upload"
    /\ app = InitialApp
    /\ invocations = <<>>
    /\ storybookProp = [isNull |-> TRUE, storybook |-> <<>>]

\* the handler of one of the variants, deployed and waiting for a request
Deployed(variants, envs) ==
    /\ strategy \in variants
    /\ env \in envs
    /\ request = NoRequest
    /\ pc = "idle"
    /\ scenes = <<>>
    /\ index = 0
    /\ storybook = <<>>
    /\ audioBase64 = <<>>
    /\ calls = <<>>
    /\ replies = <<>>
    /\ didSplit = FALSE
    /\ response = NoResponse
    /\ runware = "null"
    /\ imageBase64 = <<>>
    /\ closed = FALSE
    /\ caught = NoError

\* Deno.env with each credential set or not
Environments == [elevenlabs : BOOLEAN, runware : BOOLEAN]

Init ==
    /\ Deployed({"direct", "placeholder"}, Environments)
    /\ arg = <<>>
    /\ applied = NotApplied
    /\ lastIndex = 0
    /\ history = <<>>
    /\ NothingRendered

\* return new Response(...), from the body or from the catch
Return(resp) ==
    /\ response' = resp
    /\ pc' = "done"

\* catch (error) up to its first await or its return: the sdk variant calls
\* disconnect() on the runware it has created and waits for it with the
\* error in hand; every other catch answers at once
Catch(error) ==
    IF strategy = "sdk" /\ runware # "null"
    THEN /\ pc' = "awaitDisconnect"
         /\ caught' = error
         /\ closed' = TRUE
         /\ UNCHANGED <<response, runware>>
    ELSE /\ Return(CatchResponse(strategy, error))
         /\ UNCHANGED <<runware, closed, caught>>

\* storybook.push(pageData), then the next iteration up to its narration
\* fetch; after the last page the success response, before which the sdk
\* variant calls disconnect() and waits for it
FinishPage(audio, image) ==
    LET sceneText == scenes[index + 1]
        lines == parseSceneLines(sceneText)
        sb == Append(storybook, pageData(index, sceneText, lines, audio, image))
    IN  /\ storybook' = sb
        /\ index' = index + 1
        /\ audioBase64' = <<>>
        /\ imageBase64' = <<>>
        /\ IF index + 1 < Len(scenes)
           THEN /\ calls' = Append(calls, NarrateCall(index + 1, scenes[index + 2]))
                /\ pc' = "awaitAudio"
                /\ UNCHANGED <<response, closed>>
           ELSE IF strategy = "sdk"
           THEN /\ pc' = "awaitDisconnect"
                /\ closed' = TRUE
                /\ UNCHANGED <<calls, response>>
           ELSE /\ Return(SuccessResponse(sb))
                /\ UNCHANGED <<calls, closed>>

\* a handler that starts the narration and the illustration of the first
\* page together
Receive_BothAtOnce(req) ==
    /\ pc = "idle"
    /\ request' = req
    /\ LET kind == Preflight(req, env, strategy)
       IN  /\ didSplit' = (kind \in {"noScenes", "proceed"})
           /\ IF kind = "proceed"
              THEN LET sc == splitScenes(req.storyText)
                   IN  /\ scenes' = sc
                       /\ UNCHANGED response
                       /\ IF strategy = "sdk"
                          THEN /\ runware' = "created"
                               /\ pc' = "awaitConnect"
                               /\ UNCHANGED calls
                          ELSE /\ calls' = <<NarrateCall(0, sc[1]),
                                             IllustrateCall(0, sc[1])>>
                               /\ pc' = "awaitAudio"
                               /\ UNCHANGED runware
              ELSE /\ Return(EarlyResponse(kind, env, strategy))
                   /\ UNCHANGED <<scenes, calls, runware>>
    /\ UNCHANGED <<strategy, env, index, storybook, audioBase64, replies,
                   imageBase64, closed, caught, pureVars, uiVars>>

\* Deno.serve(async (req) => ...) from its start to the first narration
\* fetch, or to runware.connect() in the sdk variant
Receive(req) ==
    /\ pc = "idle"
    /\ request' = req
    /\ LET kind == Preflight(req, env, strategy)
       IN  /\ didSplit' = (kind \in {"noScenes", "proceed"})
           /\ IF kind = "proceed"
              THEN LET sc == splitScenes(req.storyText)
                   IN  /\ scenes' = sc
                       /\ UNCHANGED response
                       /\ IF strategy = "sdk"
                          THEN /\ runware' = "created"
                               /\ pc' = "awaitConnect"
                               /\ UNCHANGED calls
                          ELSE /\ calls' = Append(calls, NarrateCall(0, sc[1]))
                               /\ pc' = "awaitAudio"
                               /\ UNCHANGED runware
              ELSE /\ Return(EarlyResponse(kind, env, strategy))
                   /\ UNCHANGED <<scenes, calls, runware>>
    /\ UNCHANGED <<strategy, env, index, storybook, audioBase64, replies,
                   imageBase64, closed, caught, pureVars, uiVars>>

\* await runware.connect() settles: in the sdk variant the page loop up to
\* its first narration fetch, or the catch; in the perPage variant
\* runware.requestImages for the page, or the catch of the image step
Connect(ok) ==
    /\ pc = "awaitConnect"
    /\ IF ok
       THEN /\ runware' = "connected"
            /\ calls' = Append(calls,
                               IF strategy = "perPage"
                               THEN IllustrateCall(index, scenes[index + 1])
                               ELSE NarrateCall(0, scenes[1]))
            /\ pc' = IF strategy = "perPage" THEN "awaitImage"
                                             ELSE "awaitAudio"
            /\ UNCHANGED <<response, closed, caught>>
       ELSE /\ Catch(IF strategy = "perPage"
                     THEN PerPageError(Failure("Failed to connect to Runware",
                                               0, ""), index)
                     ELSE Err(TRUE, "Error",
                              Text("Failed to connect to Runware")))
            /\ UNCHANGED calls
    /\ UNCHANGED <<strategy, env, request, scenes, index, storybook,
                   audioBase64, replies, didSplit, imageBase64, pureVars, uiVars>>

\* a handler that sends a failed narration request a second time
AudioReply_RetryOnce(reply) ==
    /\ pc = "awaitAudio"
    /\ replies' = Append(replies, reply)
    /\ LET error == AudioError(reply, index)
           audio == EncodeAudio(reply.bytes)
           remote == \/ strategy \in {"direct", "rest"}
                     \/ /\ strategy = "sdk"
                        /\ ~ReusesUpload(index, Len(scenes), request)
       IN  IF /\ error.thrown
              /\ \A k \in 1..(Len(calls) - 1) : calls[k] # calls[Len(calls)]
           THEN /\ calls' = Append(calls, calls[Len(calls)])
                /\ UNCHANGED <<pc, index, storybook, audioBase64, response,
                               runware, imageBase64, closed, caught>>
           ELSE IF error.thrown
           THEN /\ Catch(error)
                /\ UNCHANGED <<index, storybook, audioBase64, imageBase64,
                               calls>>
           ELSE IF strategy = "perPage"
           THEN /\ audioBase64' = audio
                /\ runware' = "created"
                /\ closed' = FALSE
                /\ pc' = "awaitConnect"
                /\ UNCHANGED <<index, storybook, response, calls, imageBase64,
                               caught>>
           ELSE IF remote
           THEN /\ audioBase64' = audio
                /\ calls' = Append(calls, IllustrateCall(index, scenes[index + 1]))
                /\ pc' = "awaitImage"
                /\ UNCHANGED <<index, storybook, response, runware,
                               imageBase64, closed, caught>>
           ELSE /\ FinishPage(audio, SelectImage(index, Len(scenes), request))
                /\ UNCHANGED <<runware, caught>>
    /\ UNCHANGED <<strategy, env, request, scenes, didSplit, pureVars, uiVars>>

\* the narration fetch settles: the encoding of the audio, and then the image
\* request (direct; sdk unless the upload is reused), new Runware() up to its
\* connect() (perPage), or the local image and the rest of the iteration
\* (placeholder; sdk reusing the upload)
AudioReply(reply) ==
    /\ pc = "awaitAudio"
    /\ replies' = Append(replies, reply)
    /\ LET error == AudioError(reply, index)
           audio == EncodeAudio(reply.bytes)
           remote == \/ strategy \in {"direct", "rest"}
                     \/ /\ strategy = "sdk"
                        /\ ~ReusesUpload(index, Len(scenes), request)
       IN  IF error.thrown
           THEN /\ Catch(error)
                /\ UNCHANGED <<index, storybook, audioBase64, imageBase64,
                               calls>>
           ELSE IF strategy = "perPage"
           THEN /\ audioBase64' = audio
                /\ runware' = "created"
                /\ closed' = FALSE
                /\ pc' = "awaitConnect"
                /\ UNCHANGED <<index, storybook, response, calls, imageBase64,
                               caught>>
           ELSE IF remote
           THEN /\ audioBase64' = audio
                /\ calls' = Append(calls, IllustrateCall(index, scenes[index + 1]))
                /\ pc' = "awaitImage"
                /\ UNCHANGED <<index, storybook, response, runware,
                               imageBase64, closed, caught>>
           ELSE /\ FinishPage(audio, SelectImage(index, Len(scenes), request))
                /\ UNCHANGED <<runware, caught>>
    /\ UNCHANGED <<strategy, env, request, scenes, didSplit, pureVars, uiVars>>

\* the image fetch settles (direct variant): the checks of its result, then
\* the rest of the iteration
ImageReply(reply) ==
    /\ pc = "awaitImage"
    /\ replies' = Append(replies, reply)
    /\ LET error == ImageError(reply, index)
       IN  IF error.thrown
           THEN /\ Catch(error)
                /\ UNCHANGED <<index, storybook, audioBase64, imageBase64,
                               calls>>
           ELSE /\ FinishPage(audioBase64, reply.data[1].imageBase64)
                /\ UNCHANGED <<runware, caught>>
    /\ UNCHANGED <<strategy, env, request, scenes, didSplit, pureVars, uiVars>>

\* the image fetch settles (unnamed/part_005): what it throws, or the image
\* its body gives or the empty one, then the rest of the iteration
RestImageReply(reply) ==
    /\ pc = "awaitImage"
    /\ replies' = Append(replies, reply)
    /\ LET error == RestImageError(reply, index)
       IN  IF error.thrown
           THEN /\ Catch(error)
                /\ UNCHANGED <<index, storybook, audioBase64, imageBase64,
                               calls>>
           ELSE /\ FinishPage(audioBase64, RestImage(reply))
                /\ UNCHANGED <<runware, caught>>
    /\ UNCHANGED <<strategy, env, request, scenes, didSplit, pureVars, uiVars>>

\* runware.requestImages settles: the checks of its result, then the download
\* of an image given by URL, or, with the image in hand, the rest of the
\* iteration (sdk) or runware.disconnect() (perPage)
RequestImagesReply(reply) ==
    /\ pc = "awaitImage"
    /\ replies' = Append(replies, reply)
    /\ LET error == IF strategy = "perPage"
                    THEN PerPageImageError(reply, index)
                    ELSE SdkError(SdkFailure(reply), index)
       IN  IF error.thrown
           THEN /\ Catch(error)
                /\ UNCHANGED <<index, storybook, audioBase64, imageBase64,
                               calls>>
           ELSE IF NeedsDownload(reply)
           THEN /\ calls' = Append(calls, DownloadCall(index,
                                                 reply.results[1].imageURL))
                /\ pc' = "awaitDownload"
                /\ UNCHANGED <<index, storybook, audioBase64, response,
                               runware, imageBase64, closed, caught>>
           ELSE IF strategy = "perPage"
           THEN /\ imageBase64' = reply.results[1].imageBase64
                /\ pc' = "awaitDisconnect"
                /\ closed' = TRUE
                /\ UNCHANGED <<index, storybook, audioBase64, response,
                               runware, calls, caught>>
           ELSE /\ FinishPage(audioBase64, reply.results[1].imageBase64)
                /\ UNCHANGED <<runware, caught>>
    /\ UNCHANGED <<strategy, env, request, scenes, didSplit, pureVars, uiVars>>

\* fetch(imageResult.imageURL) settles: the encoding of the image, then the
\* rest of the iteration (sdk) or runware.disconnect() (perPage)
DownloadReply(reply) ==
    /\ pc = "awaitDownload"
    /\ replies' = Append(replies, reply)
    /\ LET error == IF strategy = "perPage"
                    THEN PerPageError(PerPageDownloadFailure(reply), index)
                    ELSE SdkError(DownloadFailure(reply), index)
       IN  IF error.thrown
           THEN /\ Catch(error)
                /\ UNCHANGED <<index, storybook, audioBase64, imageBase64,
                               calls>>
           ELSE IF strategy = "perPage"
           THEN /\ imageBase64' = EncodeAudio(reply.bytes)
                /\ pc' = "awaitDisconnect"
                /\ closed' = TRUE
                /\ UNCHANGED <<index, storybook, audioBase64, response,
                               runware, calls, caught>>
           ELSE /\ FinishPage(audioBase64, EncodeAudio(reply.bytes))
                /\ UNCHANGED <<runware, caught>>
    /\ UNCHANGED <<strategy, env, request, scenes, didSplit, pureVars, uiVars>>

\* await runware.disconnect() settles. In the sdk variant: in the catch the
\* error response, whether or not the disconnect threw; after the loop the
\* success response, or the catch, which calls disconnect() again. In the
\* perPage variant, at the end of the image step: the rest of the iteration,
\* or the catch of the image step
Disconnect(ok) ==
    /\ pc = "awaitDisconnect"
    /\ IF strategy = "perPage"
       THEN /\ IF ok
               THEN /\ runware' = AfterDisconnect(runware, TRUE)
                    /\ FinishPage(audioBase64, imageBase64)
               ELSE /\ Return(CatchResponse(strategy,
                          PerPageError(Failure("Failed to disconnect from Runware",
                                               0, ""), index)))
                    /\ UNCHANGED <<runware, index, storybook, audioBase64,
                                   imageBase64, calls, closed>>
            /\ UNCHANGED caught
       ELSE /\ IF caught.thrown
               THEN /\ runware' = AfterDisconnect(runware, ok)
                    /\ Return(CatchResponse(strategy, caught))
                    /\ UNCHANGED <<closed, caught>>
               ELSE IF ok
               THEN /\ runware' = AfterDisconnect(runware, TRUE)
                    /\ Return(SuccessResponse(storybook))
                    /\ UNCHANGED <<closed, caught>>
               ELSE Catch(Err(TRUE, "Error",
                              Text("Failed to disconnect from Runware")))
            /\ UNCHANGED <<index, storybook, audioBase64, imageBase64, calls>>
    /\ UNCHANGED <<strategy, env, request, scenes, replies, didSplit, pureVars, uiVars>>

Next ==
    \/ pc = "idle" /\ \E req \in Requests : Receive(req)
    \/ pc = "awaitAudio" /\ \E reply \in NarrationReplies : AudioReply(reply)
    \/ pc = "awaitImage" /\ \E reply \in ImageReplies : ImageReply(reply)

Spec == Init /\ [][Next]_vars

\* the handler of unnamed/part_006
InitSdk ==
    /\ Deployed({"sdk"}, Environments)
    /\ arg = <<>>
    /\ applied = NotApplied
    /\ lastIndex = 0
    /\ history = <<>>
    /\ NothingRendered

NextSdk ==
    \/ pc = "idle" /\ \E req \in Requests : Receive(req)
    \/ pc = "awaitConnect" /\ \E ok \in BOOLEAN : Connect(ok)
    \/ pc = "awaitAudio" /\ \E reply \in NarrationReplies : AudioReply(reply)
    \/ pc = "awaitImage" /\ \E reply \in SdkReplies : RequestImagesReply(reply)
    \/ pc = "awaitDownload" /\ \E reply \in DownloadReplies : DownloadReply(reply)
    \/ pc = "awaitDisconnect" /\ \E ok \in BOOLEAN : Disconnect(ok)

SpecSdk == InitSdk /\ [][NextSdk]_vars

\* the storybook handler of supabase/functions/get-story
InitPerPage ==
    /\ Deployed({"perPage"}, Environments)
    /\ arg = <<>>
    /\ applied = NotApplied
    /\ lastIndex = 0
    /\ history = <<>>
    /\ NothingRendered

NextPerPage ==
    \/ pc = "idle" /\ \E req \in Requests : Receive(req)
    \/ pc = "awaitAudio" /\ \E reply \in NarrationReplies : AudioReply(reply)
    \/ pc = "awaitConnect" /\ \E ok \in BOOLEAN : Connect(ok)
    \/ pc = "awaitImage" /\ \E reply \in SdkReplies : RequestImagesReply(reply)
    \/ pc = "awaitDownload" /\ \E reply \in DownloadReplies : DownloadReply(reply)
    \/ pc = "awaitDisconnect" /\ \E ok \in BOOLEAN : Disconnect(ok)

SpecPerPage == InitPerPage /\ [][NextPerPage]_vars

\* the handler of unnamed/part_005
InitRest ==
    /\ Deployed({"rest"}, Environments)
    /\ arg = <<>>
    /\ applied = NotApplied
    /\ lastIndex = 0
    /\ history = <<>>
    /\ NothingRendered

NextRest ==
    \/ pc = "idle" /\ \E req \in Requests : Receive(req)
    \/ pc = "awaitAudio" /\ \E reply \in NarrationReplies : AudioReply(reply)
    \/ pc = "awaitImage" /\ \E reply \in RestReplies : RestImageReply(reply)

SpecRest == InitRest /\ [][NextRest]_vars

-----------------------------------------------------------------------------
(* splitScenes and parseSceneLines called on their own.                    *)

\* spec.md, Scenario A, second scene
AliceLine ==
    <<"A","l","i","c","e",":"," ","W","h","e","r","e"," ","a","r","e"," ",
      "w","e","?">>

\* spec.md, Scenario D
ScenarioD ==
    <<"T","h","e"," ","f","o","r","e","s","t"," ","w","a","s"," ","q","u",
      "i","e","t",".">>

\* a letter and digits, n characters in all
LongToken(n) == [k \in 1..n |-> IF k = 1 THEN "A" ELSE "1"]

\* lines of the form <token><spaces>:? with a token next to the longest that
\* the pattern takes for a speaker
LongTokenLines ==
    {LongToken(n) \o sp \o <<":", "?">> :
        n \in (MaxSpeakerTail - 1)..(MaxSpeakerTail + 2),
        sp \in {<<>>, <<" ">>, <<" ", " ">>, <<"\t">>}}

\* lines with a tab, an underscore or a hyphen before the colon, and a
\* speaker with nothing after the colon
PrefixLines ==
    {<<"A", "\t", ":", "?">>,
     <<"A", "\t", "1", ":", "?">>,
     <<"A", "-", "_", " ", "b", " ", ":", "?">>,
     <<"A", ".", ":", "?">>,
     <<"A", "l", "i", "c", "e", ":">>,
     <<"A", "l", "i", "c", "e", " ", ":", "\t">>,
     <<"A", "NBSP", ":", "a">>,
     <<"A", "NBSP", "b", ":", "a">>,
     <<"A", ":", "a", "VT">>,
     <<"A", ":", "LS">>,
     <<"A", ":", "a", "PS", "b">>,
     <<"BOM", "A", ":", "IDSP", "a">>,
     <<"VT">>,
     <<".", "NBSP">>,
     <<"a", "\n", "\n", "VT", "\n", "\n", "EMSP", "b", "LS">>}

Args ==
    UNION {[1..n -> ArgChars] : n \in 0..MaxArgLen}
      \cup {ScenarioA, ScenarioC, ScenarioD, AliceLine}
      \cup LongTokenLines \cup PrefixLines

InitPure ==
    /\ Deployed({"direct"}, {[elevenlabs |-> TRUE, runware |-> TRUE]})
    /\ arg \in Args
    /\ applied = NotApplied
    /\ lastIndex = 0
    /\ history = <<>>
    /\ NothingRendered

\* splitScenes(arg)
CallSplitScenes ==
    /\ applied.fn = "none"
    /\ applied' = [fn |-> "splitScenes", value |-> splitScenes(arg)]
    /\ UNCHANGED <<handlerVars, arg, lastIndex, history, uiVars>>

\* parseSceneLines(arg)
CallParseSceneLines ==
    /\ applied.fn = "none"
    /\ applied' = [fn |-> "parseSceneLines", value |-> parseSceneLines(arg)]
    /\ UNCHANGED <<handlerVars, arg, lastIndex, history, uiVars>>

NextPure ==
    \/ CallSplitScenes
    \/ CallParseSceneLines

SpecPure == InitPure /\ [][NextPure]_vars

-----------------------------------------------------------------------------
(* The conversion of a narration body to audioBase64, on its own.          *)

\* short bodies have at most this many bytes
MaxBodyLen == 4

\* the byte values of the short bodies
BodyBytes == {0, 77, 255}

\* the lengths next to one chunk and to two chunks
ChunkEdgeLengths ==
    {chunkSize - 1, chunkSize, chunkSize + 1, 2 * chunkSize, 2 * chunkSize + 1}

\* a body of n bytes in which no two chunks are alike
LongBody(n) == [k \in 1..n |-> k % 251]

\* what audioResponse.arrayBuffer() may hold
AudioBodies ==
    UNION {[1..n -> BodyBytes] : n \in 0..MaxBodyLen}
    \cup {LongBody(n) : n \in ChunkEdgeLengths}

InitEncode ==
    /\ Deployed({"direct"}, {[elevenlabs |-> TRUE, runware |-> TRUE]})
    /\ arg \in AudioBodies
    /\ applied = NotApplied
    /\ lastIndex = 0
    /\ history = <<>>
    /\ NothingRendered

\* audioBase64 = btoa(audioBinary) of the body arg
CallEncodeAudio ==
    /\ applied.fn = "none"
    /\ applied' = [fn |-> "encodeAudio", value |-> EncodeAudio(arg)]
    /\ UNCHANGED <<handlerVars, arg, lastIndex, history, uiVars>>

NextEncode == CallEncodeAudio

SpecEncode == InitEncode /\ [][NextEncode]_vars

-----------------------------------------------------------------------------------------------------------------------------------------------------
(* The Storybook component, and what re-rendering it with another          *)
(* storybook does.                                                         *)

\* a storybook has at most this many pages
MaxPages == 3

\* at most this many clicks and ended audios are followed
MaxTurns == 3

\* the audioBase64 of a page: a narration, or "" for an empty one
PageAudios == {EncodeAudio(<<73, 68, 51, 4>>), <<>>}

\* the storybooks shown: storybook.storybook.length > 0
Books == UNION {[1..n -> [audioBase64 : PageAudios]] : n \in 1..MaxPages}

\* useEffect(..., [currentPage]) on the page shown: without audioSrc there
\* is no <audio>; with one, load() and play(), which the browser may refuse
AfterEffect(page) ==
    IF page.audioBase64 = <<>> THEN {"none"} ELSE {"playing", "blocked"}

\* <Storybook storybook={...}> rendered for the first time: useState(0);
\* without pages the early return null, else the page and the effect
Mount(book) ==
    /\ pages' = book
    /\ currentPage' = 0
    /\ IF Len(book) = 0
       THEN /\ view' = "empty"
            /\ audioRef' = "none"
       ELSE /\ view' = "storybook"
            /\ audioRef' \in AfterEffect(book[1])

\* a render that throws, with no error boundary above it: React removes
\* the whole tree
Crash(book) ==
    /\ pages' = book
    /\ view' = "crashed"
    /\ audioRef' = "none"
    /\ UNCHANGED currentPage

\* <Storybook> rendered again with another storybook: currentPage is kept.
\* A render on the other side of the early return calls another number of
\* hooks, which React refuses; pages[currentPage] past the end is undefined
\* and page.page throws; else the page is shown, the effect does not run
\* (currentPage is the same), an <audio> that stays keeps what it was doing
\* and a new one is not started
Rerender(book) ==
    IF (view = "empty") # (Len(book) = 0)
    THEN Crash(book)
    ELSE IF view = "empty"
    THEN /\ pages' = book
         /\ UNCHANGED <<currentPage, audioRef, view>>
    ELSE IF currentPage >= Len(book)
    THEN Crash(book)
    ELSE /\ pages' = book
         /\ audioRef' = IF book[currentPage + 1].audioBase64 = <<>>
                        THEN "none"
                        ELSE IF audioRef = "none" THEN "blocked"
                        ELSE audioRef
         /\ UNCHANGED <<currentPage, view>>

\* <Storybook> removed from the tree: its state is gone
Unmount ==
    /\ pages' = <<>>
    /\ currentPage' = 0
    /\ audioRef' = "none"
    /\ view' = "upload"

InitViewer ==
    /\ Deployed({"direct"}, {[elevenlabs |-> TRUE, runware |-> TRUE]})
    /\ arg = <<>>
    /\ applied = NotApplied
    /\ lastIndex = 0
    /\ history = <<>>
    /\ pages \in Books
    /\ currentPage = 0
    /\ audioRef \in AfterEffect(pages[1])
    /\ turns = <<>>
    /\ view = "storybook"
    /\ app = InitialApp
    /\ invocations = <<>>
    /\ storybookProp = [isNull |-> FALSE, storybook |-> pages]

\* setCurrentPage(to), the render and the effect that follow it
ShowPage(event, to) ==
    /\ turns' = Append(turns, [event |-> event, from |-> currentPage,
                               to |-> to, of |-> Len(pages)])
    /\ currentPage' = to
    /\ IF to = currentPage
       THEN UNCHANGED audioRef
       ELSE audioRef' \in AfterEffect(pages[to + 1])
    /\ UNCHANGED <<pages, view, handlerVars, pureVars, appVars>>

\* a click on Next: const goToNextPage = () => { ... }
goToNextPage ==
    /\ view = "storybook"
    /\ Len(turns) < MaxTurns
    /\ IF currentPage < Len(pages) - 1
       THEN ShowPage("next", currentPage + 1)
       ELSE ShowPage("next", currentPage)

\* a click on Previous: const goToPreviousPage = () => { ... }
goToPreviousPage ==
    /\ view = "storybook"
    /\ Len(turns) < MaxTurns
    /\ IF currentPage > 0
       THEN ShowPage("previous", currentPage - 1)
       ELSE ShowPage("previous", currentPage)

\* the audio of the page plays to its end: <audio> has no onEnded, so
\* nothing else happens
AudioEnded ==
    /\ view = "storybook"
    /\ Len(turns) < MaxTurns
    /\ audioRef = "playing"
    /\ audioRef' = "ended"
    /\ turns' = Append(turns, [event |-> "ended", from |-> currentPage,
                               to |-> currentPage, of |-> Len(pages)])
    /\ UNCHANGED <<pages, currentPage, view, handlerVars, pureVars, appVars>>

\* the play button of <audio controls>
PlayPressed ==
    /\ view = "storybook"
    /\ audioRef \in {"blocked", "ended"}
    /\ audioRef' = "playing"
    /\ UNCHANGED <<pages, currentPage, turns, view, handlerVars, pureVars,
                   appVars>>

\* the parent renders <Storybook> with another storybook
StorybookReplaced(book) ==
    /\ view = "storybook"
    /\ book # pages
    /\ storybookProp' = [isNull |-> FALSE, storybook |-> book]
    /\ Rerender(book)
    /\ UNCHANGED <<turns, app, invocations, handlerVars, pureVars>>

NextViewer ==
    \/ goToNextPage
    \/ goToPreviousPage
    \/ AudioEnded
    \/ PlayPressed
    \/ \E book \in Books : StorybookReplaced(book)

SpecViewer == InitViewer /\ [][NextViewer]_vars

-----------------------------------------------------------------------------
(* The App component: handleImageSelect, the four calls it awaits, and the *)
(* <Storybook> it renders.                                                 *)

\* handleImageSelect is invoked at most this many times
MaxInvocations == 2

\* the images selected; "" is no image (the selection cleared)
Images == {"sun", "moon"}

\* what handleImageSelect awaits, in order
Steps ==
    <<"describeImage", "getStoryFromDescription", "convertTextToSpeech",
      "createStorybook">>

\* a storybook of n narrated pages
Narrated(n) == [k \in 1..n |-> [audioBase64 |-> EncodeAudio(<<73, 68, 51, 4>>)]]

\* what createStorybook resolves with: nothing (null or undefined), or an
\* object with the pages of its storybook, none (or no storybook in it), one,
\* or as many as there can be, or one page without narration
StorybookData ==
    {[isNull |-> TRUE, storybook |-> <<>>]}
      \cup {[isNull |-> FALSE, storybook |-> Narrated(n)] : n \in {0, 1, MaxPages}}
      \cup {[isNull |-> FALSE, storybook |-> <<[audioBase64 |-> <<>>]>>]}

InitApp ==
    /\ Deployed({"direct"}, {[elevenlabs |-> TRUE, runware |-> TRUE]})
    /\ arg = <<>>
    /\ applied = NotApplied
    /\ lastIndex = 0
    /\ history = <<>>
    /\ NothingRendered

\* handleImageSelect(imageData) up to its return or its first await; what
\* an invocation sets is written as the image it was invoked with.
\* <ImageUpload> calls it, which is there while the last render had no
\* storybook
handleImageSelect(imageData) ==
    /\ Len(invocations) < MaxInvocations
    /\ view = "upload"
    /\ IF imageData = ""
       THEN /\ app' = [app EXCEPT !.description = "", !.story = "",
                                  !.audioUrl = "", !.storybook = "",
                                  !.error = ""]
            /\ invocations' = Append(invocations,
                                     [imageData |-> "", awaiting |-> "settled"])
       ELSE /\ app' = [description |-> "", story |-> "", audioUrl |-> "",
                       storybook |-> "", loading |-> TRUE, error |-> ""]
            /\ invocations' = Append(invocations,
                                     [imageData |-> imageData,
                                      awaiting |-> Steps[1]])
    /\ storybookProp' = [isNull |-> TRUE, storybook |-> <<>>]
    /\ UNCHANGED <<handlerVars, pureVars, viewerVars>>

\* the call invocation i awaits resolves: the setter after it, and then the
\* next call, or finally { setLoading(false) } after the last one;
\* createStorybook resolves with data. The setters schedule a render, which
\* is a step of its own. Once React has removed the tree they change nothing
Resolved(i, data) ==
    /\ i \in 1..Len(invocations)
    /\ invocations[i].awaiting # "settled"
    /\ LET image == invocations[i].imageData
           step == invocations[i].awaiting
           shown(a) == IF view = "crashed" THEN app ELSE a
       IN  IF step = Steps[1]
           THEN /\ app' = shown([app EXCEPT !.description = image])
                /\ invocations' = [invocations EXCEPT ![i].awaiting = Steps[2]]
                /\ UNCHANGED storybookProp
           ELSE IF step = Steps[2]
           THEN /\ app' = shown([app EXCEPT !.story = image])
                /\ invocations' = [invocations EXCEPT ![i].awaiting = Steps[3]]
                /\ UNCHANGED storybookProp
           ELSE IF step = Steps[3]
           THEN /\ app' = shown([app EXCEPT !.audioUrl = image])
                /\ invocations' = [invocations EXCEPT ![i].awaiting = Steps[4]]
                /\ UNCHANGED storybookProp
           ELSE /\ app' = shown([app EXCEPT
                                   !.storybook = IF data.isNull THEN "" ELSE image,
                                   !.loading = FALSE])
                /\ invocations' = [invocations EXCEPT ![i].awaiting = "settled"]
                /\ storybookProp' = IF view = "crashed" THEN storybookProp
                                    ELSE data
    /\ UNCHANGED <<handlerVars, pureVars, viewerVars>>

\* the call invocation i awaits rejects: catch (err) { setError(err.message) }
\* finally { setLoading(false) }
Rejected(i) ==
    /\ i \in 1..Len(invocations)
    /\ invocations[i].awaiting # "settled"
    /\ app' = IF view = "crashed" THEN app
              ELSE [app EXCEPT !.error = invocations[i].imageData,
                               !.loading = FALSE]
    /\ invocations' = [invocations EXCEPT ![i].awaiting = "settled"]
    /\ UNCHANGED <<storybookProp, handlerVars, pureVars, viewerVars>>

\* React renders App with the state the setters have left, after one
\* continuation or after several:
\* {storybook && <Storybook storybook={storybook} />}.
\* A render is due while what the last one showed is not what the storybook
\* state asks for
Render ==
    /\ view # "crashed"
    /\ IF storybookProp.isNull
       THEN /\ view # "upload"
            /\ Unmount
       ELSE IF view = "upload"
       THEN Mount(storybookProp.storybook)
       ELSE /\ pages # storybookProp.storybook
            /\ Rerender(storybookProp.storybook)
    /\ UNCHANGED <<turns, appVars, handlerVars, pureVars>>

NextApp ==
    \/ \E imageData \in Images \cup {""} : handleImageSelect(imageData)
    \/ \E i \in 1..MaxInvocations, data \in StorybookData : Resolved(i, data)
    \/ \E i \in 1..MaxInvocations : Rejected(i)
    \/ Render
    \/ goToNextPage
    \/ goToPreviousPage
    \/ AudioEnded
    \/ PlayPressed

SpecApp == InitApp /\ [][NextApp]_vars

-----
(* parseSceneLines called again and again, by any requests in any order.   *)

\* parseSceneLines is called at most this many times
MaxCalls == 3

\* the scenes it is called with: dialogue, narration, both, a blank line
RepeatedScenes ==
    {AliceLine,
     ScenarioD,
     <<"A", ":", "1">>,
     <<"A", ":", "1", "\n", "\n", "1", " ", ":", "?">>,
     <<"1", "\n", "A", " ", ":", " ", "?", ":">>,
     <<" ", ":">>}

InitRepeat ==
    /\ Deployed({"direct"}, {[elevenlabs |-> TRUE, runware |-> TRUE]})
    /\ arg = <<>>
    /\ applied = NotApplied
    /\ lastIndex = 0
    /\ history = <<>>
    /\ NothingRendered

\* parseSceneLines(scene), with the pattern as the calls before left it
ParseScene(scene) ==
    /\ Len(history) < MaxCalls
    /\ LET parsed == ParseLinesAt(Split(scene, <<"\n">>), lastIndex)
       IN  /\ history' = Append(history, [scene |-> scene,
                                          lines |-> parsed.lines])
           /\ lastIndex' = parsed.lastIndex
    /\ UNCHANGED <<handlerVars, arg, applied, uiVars>>

NextRepeat == \E scene \in RepeatedScenes : ParseScene(scene)

SpecRepeat == InitRepeat /\ [][NextRepeat]_vars

-----------------------------------------------------------------------------
(* What the claims speak of.                                               *)

Done == pc = "done"

\* a POST whose body parsed
PostWithBody == request.method = "POST" /\ request.jsonOk

\* a POST with a non-empty storyText
PostWithStory ==
    PostWithBody /\ request.hasStoryText /\ request.storyText # <<>>

HasStorybook == "storybook" \in DOMAIN response.body

HasError == "error" \in DOMAIN response.body

\* a 2xx response carrying a storybook
Succeeded == Done /\ Ok(response.status) /\ HasStorybook

\* a non-2xx response carrying an error and no storybook
Failed == Done /\ ~Ok(response.status) /\ HasError /\ ~HasStorybook

\* the number of scenes of the story of the request
SceneCount == Len(splitScenes(request.storyText))

\* call i was answered with a non-2xx status
Non2xx(i) == replies[i].kind = "response" /\ ~Ok(replies[i].status)

\* the ways the claim lists for an illustration call to fail
IllustrationFailed(r) ==
    /\ r.kind = "response"
    /\ \/ ~Ok(r.status)
       \/ Len(r.errors) > 0
       \/ ~r.hasData
       \/ r.data = <<>>
       \/ ~r.data[1].hasImage
       \/ r.data[1].imageBase64 = <<>>

\* every credential the deployed variant needs is set
CredentialsConfigured ==
    env.elevenlabs /\ (strategy # "placeholder" => env.runware)

ConfigurationErrors ==
    {"ELEVENLABS_API_KEY not configured", "RUNWARE_API_KEY not configured"}

\* the response is the configuration error
IsConfigurationError ==
    /\ Failed
    /\ response.status = 500
    /\ response.body.error.template \in ConfigurationErrors

\* an image was uploaded with the request
ImageSupplied == request.hasImage /\ request.originalImageData # <<>>

IsSuffix(s, whole) ==
    /\ Len(s) <= Len(whole)
    /\ SubSeq(whole, Len(whole) - Len(s) + 1, Len(whole)) = s

-----------------------------------------------------------------------------
(* The claims.                                                             *)

\* C1: when the narration call of page k comes back non-2xx, the handler has
\* returned an error response without a storybook, that call is the last
\* remote call (none for a later page, no image call for page k), and the
\* pages completed before are not in the response.
C1_NarrationFailureAborts ==
    \A i \in 1..Len(replies) :
        (calls[i].kind = "narrate" /\ Non2xx(i)) =>
            /\ Failed
            /\ Len(calls) = i
            /\ \A j \in 1..Len(calls) :
                  /\ calls[j].page <= calls[i].page
                  /\ ~(calls[j].kind = "illustrate" /\ calls[j].page = calls[i].page)
            /\ Len(storybook) = calls[i].page - 1

\* C1 witness: the narration of page 2 failed under the direct variant, after
\* page 1 had been completed with audio and image
C1_Witness ==
    /\ strategy = "direct"
    /\ Done
    /\ Len(storybook) = 1
    /\ \E i \in 1..Len(replies) :
          calls[i].kind = "narrate" /\ calls[i].page = 2 /\ Non2xx(i)

\* C2: under the direct variant, when the illustration call of page k fails
\* (non-2xx, an errors array, no data, no image), the handler has returned an
\* error response without a storybook or any audio, and that call is the last
\* remote call.
C2_ImageFailureAborts ==
    strategy = "direct" =>
        \A i \in 1..Len(replies) :
            (calls[i].kind = "illustrate" /\ IllustrationFailed(replies[i])) =>
                /\ Failed
                /\ Len(calls) = i
                /\ DOMAIN response.body = {"error", "errorType", "details"}
                /\ Len(storybook) = calls[i].page - 1

\* C2 witness: the image of page 2 came back 200 with an errors array, after
\* page 1 was completed and the audio of page 2 was encoded
C2_Witness ==
    /\ strategy = "direct"
    /\ Done
    /\ Len(storybook) = 1
    /\ audioBase64 # <<>>
    /\ \E i \in 1..Len(replies) :
          /\ calls[i].kind = "illustrate"
          /\ calls[i].page = 2
          /\ Ok(replies[i].status)
          /\ Len(replies[i].errors) > 0

\* C3: every response to a POST is either 2xx with success = true,
\* totalPages = N and a storybook of N pages, N the number of scenes of the
\* story, or non-2xx with an error and no storybook, and never both.
C3_AllOrNothing ==
    (Done /\ request.method = "POST") =>
        LET whole == /\ Ok(response.status)
                     /\ DOMAIN response.body = {"success", "totalPages", "storybook"}
                     /\ response.body.success = TRUE
                     /\ response.body.totalPages = SceneCount
                     /\ Len(response.body.storybook) = SceneCount
                     /\ SceneCount >= 1
            nothing == Failed
        IN  (whole \/ nothing) /\ ~(whole /\ nothing)

\* C3 witness: a story of three scenes was answered with its storybook
C3_Witness ==
    /\ Succeeded
    /\ request.method = "POST"
    /\ SceneCount = 3
    /\ response.body.totalPages = 3

\* C4: in a returned storybook the pages are numbered 1..N in order, page k
\* is built from the k-th scene of the story, and totalPages = N.
C4_PageNumbering ==
    Succeeded =>
        LET sb == response.body.storybook
            sc == splitScenes(request.storyText)
        IN  /\ Len(sb) = Len(sc)
            /\ response.body.totalPages = Len(sc)
            /\ \A k \in 1..Len(sb) :
                  /\ sb[k].page = k
                  /\ sb[k].text = sc[k]

\* C4 witness: the storybook of Scenario A, whose second page is Alice's line
C4_Witness ==
    /\ Succeeded
    /\ request.storyText = ScenarioA
    /\ Len(response.body.storybook) = 3
    /\ response.body.storybook[2].lines[1].speaker = <<"A", "l", "i", "c", "e">>

\* C5: a request whose storyText is absent or "" is answered 400 "storyText
\* is required" whatever credentials are set, without splitting scenes and
\* without a remote call.
C5_MissingInput ==
    (PostWithBody /\ (~request.hasStoryText \/ request.storyText = <<>>)) =>
        /\ Done
        /\ Failed
        /\ response.status = 400
        /\ response.body.error.template = "storyText is required"
        /\ ~didSplit
        /\ calls = <<>>

\* C5 witness: storyText "" on a deployment with no credential set
C5_Witness ==
    /\ Done
    /\ PostWithBody
    /\ request.hasStoryText
    /\ request.storyText = <<>>
    /\ ~env.elevenlabs
    /\ ~env.runware
    /\ response.status = 400

\* C6: with the needed credentials set, a non-empty storyText without a
\* scene (nothing in it but whitespace) is answered 400 "No scenes found",
\* not with an empty storybook, and no remote call is issued.
C6_NoScenesFound ==
    (CredentialsConfigured /\ PostWithStory /\ AllWhitespace(request.storyText)) =>
        /\ Done
        /\ Failed
        /\ response.status = 400
        /\ response.body.error.template
             = "No scenes found. Use blank lines (\\n\\n) to separate scenes."
        /\ calls = <<>>

\* C6 witness: Scenario C, three spaces, two line breaks, two spaces
C6_Witness ==
    /\ Done
    /\ CredentialsConfigured
    /\ request.method = "POST"
    /\ request.storyText = ScenarioC
    /\ response.status = 400

\* C7 as claimed: with a needed credential unset, every POST, whatever its
\* storyText, is answered with the configuration error and no remote call.
C7_ConfigurationErrorWhateverStoryText ==
    (~CredentialsConfigured /\ PostWithBody) =>
        /\ Done
        /\ IsConfigurationError
        /\ calls = <<>>

\* C8: under the placeholder variant, with an image uploaded pages 1..N-1
\* carry the placeholder and page N the uploaded image; without one all N
\* pages carry the placeholder, one and the same value everywhere.
C8_PlaceholderPolicy ==
    (strategy = "placeholder" /\ Succeeded) =>
        LET sb == response.body.storybook
            n == Len(sb)
        IN  \A k \in 1..n :
                IF ImageSupplied /\ k = n
                THEN /\ IsSuffix(sb[k].imageBase64, request.originalImageData)
                     /\ IsSuffix(Payload, sb[k].imageBase64)
                     /\ sb[k].imageBase64 # createPlaceholderImage
                ELSE sb[k].imageBase64 = createPlaceholderImage

\* C8 witness: three pages, the upload a PNG data URL
C8_Witness ==
    /\ strategy = "placeholder"
    /\ Succeeded
    /\ Len(response.body.storybook) = 3
    /\ request.originalImageData = DataUrl(<<"p", "n", "g">>, Payload)
    /\ response.body.storybook[3].imageBase64 = Payload
    /\ response.body.storybook[1].imageBase64 = createPlaceholderImage

\* C9: under the placeholder variant no illustration call is issued; a
\* storybook of N scenes takes N remote calls, the narrations of pages 1..N
\* in order; once the loop runs, only a failed narration (the call, or the
\* conversion of its body) ends it without a storybook; and the Runware key
\* is not needed.
C9_PlaceholderNeedsNoIllustration ==
    strategy = "placeholder" =>
        /\ \A i \in 1..Len(calls) : calls[i].kind = "narrate" /\ calls[i].page = i
        /\ Succeeded => Len(calls) = SceneCount /\ Len(replies) = SceneCount
        /\ (Done /\ calls # <<>> /\ ~Succeeded) =>
              /\ Failed
              /\ Len(replies) = Len(calls)
              /\ LET last == replies[Len(replies)]
                 IN  \/ last.kind = "networkError"
                     \/ ~Ok(last.status)
                     \/ ~last.fits
        /\ (env.elevenlabs /\ PostWithStory /\ SceneCount > 0) => calls # <<>>
        /\ (Done /\ HasError) =>
              response.body.error.template # "RUNWARE_API_KEY not configured"

\* C9 witness: three pages returned by a deployment without a Runware key
C9_Witness ==
    /\ strategy = "placeholder"
    /\ ~env.runware
    /\ Succeeded
    /\ Len(response.body.storybook) = 3
    /\ Len(calls) = 3

\* the upload without its prefix data:image/<fmt>;base64, whatever <fmt> is
WithoutDataUrlPrefix(data) ==
    LET h == Len(DataUrlHead)
        t == Len(DataUrlTail)
        ps == {p \in (h + 2)..(Len(data) - t + 1) :
                 SubSeq(data, p, p + t - 1) = DataUrlTail}
    IN  IF StartsWith(data, DataUrlHead) /\ ps # {}
        THEN SubSeq(data, MinOf(ps) + t, Len(data))
        ELSE data

\* C10: the image of the final page is the upload with its prefix
\* data:image/<fmt>;base64, removed, for every format name, and so never
\* starts with "data:".
C10_PrefixStripped ==
    (strategy = "placeholder" /\ Succeeded /\ ImageSupplied) =>
        LET sb == response.body.storybook
            final == sb[Len(sb)].imageBase64
        IN  /\ final = WithoutDataUrlPrefix(request.originalImageData)
            /\ ~StartsWith(final, <<"d", "a", "t", "a", ":">>)

\* page p of the storybook has its image from a remote illustration call
RemoteImage(p) ==
    \E i \in 1..Len(calls) :
        calls[i].kind = "illustrate" /\ calls[i].page = p

\* C11: within one returned storybook the images are all obtained the same
\* way: there are not both a page whose image came from a remote illustration
\* call and a page whose image is the upload or was made locally.
C11_OneStrategyPerStorybook ==
    Succeeded =>
        LET numbers == 1..Len(response.body.storybook)
        IN  \/ \A p \in numbers : RemoteImage(p)
            \/ \A p \in numbers : ~RemoteImage(p)

\* reply i is a 2xx narration response with an empty body
EmptyNarration(i) ==
    /\ calls[i].kind = "narrate"
    /\ replies[i].kind = "response"
    /\ Ok(replies[i].status)
    /\ replies[i].bytes = <<>>

\* C12: a 2xx upstream response with an empty body is a generation failure:
\* after an empty narration body the handler returns an error, and no page of
\* a returned storybook has an empty audioBase64 or an empty imageBase64.
C12_EmptyBodyIsFailure ==
    /\ \A i \in 1..Len(replies) : EmptyNarration(i) => Failed
    /\ Succeeded =>
          \A p \in 1..Len(response.body.storybook) :
              /\ response.body.storybook[p].audioBase64 # <<>>
              /\ response.body.storybook[p].imageBase64 # <<>>

\* C13: when the narration call of page k comes back non-2xx, the error
\* returned names page k (1-based) and carries the upstream status and the
\* upstream body.
C13_AudioErrorCarriesStatusAndBody ==
    \A k \in 1..Len(replies) :
        (calls[k].kind = "narrate" /\ Non2xx(k)) =>
            /\ Failed
            /\ response.body.error.page = calls[k].page
            /\ response.body.error.detail = replies[k].text
            /\ response.body.error.status = replies[k].status

TooLargeMessage ==
    "Data size too large for processing. Try generating a shorter story with fewer pages."

\* the conversion of reply i, a narration or a downloaded image, ran out of
\* stack: a call-stack RangeError
StackExhausted(i) ==
    /\ calls[i].kind \in {"narrate", "download"}
    /\ replies[i].kind = "response"
    /\ Ok(replies[i].status)
    /\ ~replies[i].fits

\* C14: in every variant, when the handling of the payloads fails with a
\* call-stack RangeError the response carries the distinct "data size too
\* large" error, not the raw message of the exception (a catch that is
\* still waiting for its disconnect has not answered yet).
C14_TooLargeIsDistinctError ==
    \A i \in 1..Len(replies) :
        StackExhausted(i) =>
            \/ /\ pc = "awaitDisconnect"
               /\ caught.thrown
               /\ response = NoResponse
            \/ /\ Failed
               /\ response.body.error.template = TooLargeMessage
               /\ response.body.error.template # CallStackMessage

\* splitScenes was called with arg
SplitCalled == applied.fn = "splitScenes"

\* parseSceneLines was called with arg
ParseCalled == applied.fn = "parseSceneLines"

\* the first position at or after from where piece occurs in s, 0 if nowhere
FirstOccurrence(s, piece, from) ==
    LET ps == {q \in from..(Len(s) - Len(piece) + 1) :
                 SubSeq(s, q, q + Len(piece) - 1) = piece}
    IN  IF ps = {} THEN 0 ELSE MinOf(ps)

\* the pieces occur in s from position from on, one after the other
RECURSIVE InOrder(_, _, _)
InOrder(s, pieces, from) ==
    IF pieces = <<>> THEN TRUE
    ELSE LET q == FirstOccurrence(s, Head(pieces), from)
         IN  q # 0 /\ InOrder(s, Tail(pieces), q + Len(Head(pieces)))

\* C15: splitScenes(S) has no empty element and no element with leading or
\* trailing whitespace, and its elements are stretches of S that follow one
\* another in S in the order of the result.
C15_ScenesTrimmedInOrder ==
    SplitCalled =>
        /\ \A i \in 1..Len(applied.value) :
              LET scene == applied.value[i]
              IN  /\ scene # <<>>
                  /\ ~IsWhitespace(scene[1])
                  /\ ~IsWhitespace(scene[Len(scene)])
        /\ InOrder(arg, applied.value, 1)

\* C15 witness: two different scenes, with whitespace beside the separator
\* that the result does not have
C15_Witness ==
    /\ SplitCalled
    /\ Len(applied.value) = 2
    /\ applied.value[1] # applied.value[2]
    /\ Len(applied.value[1]) + Len(applied.value[2]) + 2 < Len(arg)

RECURSIVE Join(_, _)
Join(pieces, sep) ==
    IF pieces = <<>> THEN <<>>
    ELSE IF Len(pieces) = 1 THEN pieces[1]
    ELSE pieces[1] \o sep \o Join(Tail(pieces), sep)

NonWhitespace(s) == SelectSeq(s, LAMBDA c : ~IsWhitespace(c))

\* all of s from position from on is whitespace but the pieces, which occur
\* there one after the other
RECURSIVE OnlyWhitespaceBetween(_, _, _)
OnlyWhitespaceBetween(s, pieces, from) ==
    IF pieces = <<>> THEN AllWhitespace(SubSeq(s, from, Len(s)))
    ELSE LET q == FirstOccurrence(s, Head(pieces), from)
         IN  /\ q # 0
             /\ AllWhitespace(SubSeq(s, from, q - 1))
             /\ OnlyWhitespaceBetween(s, Tail(pieces), q + Len(Head(pieces)))

\* C16: splitScenes(S) joined with "\n\n" is S but for whitespace at the
\* boundaries of the scenes: the non-whitespace characters of S are all there,
\* once each and in their order, S is the scenes with only whitespace around
\* and between them, and splitting the joined text gives the same scenes.
C16_JoinReproducesStory ==
    SplitCalled =>
        LET joined == Join(applied.value, SceneSeparator)
        IN  /\ NonWhitespace(joined) = NonWhitespace(arg)
            /\ OnlyWhitespaceBetween(arg, applied.value, 1)
            /\ splitScenes(joined) = applied.value

\* C16 witness: a story of two scenes that begins with whitespace, so that
\* the joined scenes are not the story itself
C16_Witness ==
    /\ SplitCalled
    /\ Len(applied.value) = 2
    /\ IsWhitespace(arg[1])
    /\ Join(applied.value, SceneSeparator) # arg

\* the lines of the scene that are not blank, in order
NonBlankLines(sceneText) ==
    SelectSeq(Split(sceneText, <<"\n">>), LAMBDA l : ~AllWhitespace(l))

\* C17: parseSceneLines emits one DialogueLine for each line that is not
\* empty after trimming and none for a blank line, and the i-th DialogueLine
\* comes from the i-th such line: its text is the end of that line, trimmed,
\* and its speaker is "Narrator" or the start of that line.
C17_OneLinePerNonBlankLine ==
    ParseCalled =>
        LET ls == NonBlankLines(arg)
        IN  /\ Len(applied.value) = Len(ls)
            /\ \A i \in 1..Len(ls) :
                  /\ IsSuffix(applied.value[i].text, Trim(ls[i]))
                  /\ \/ applied.value[i].speaker = Narrator
                     \/ StartsWith(Trim(ls[i]), applied.value[i].speaker)

\* C17 witness: two different lines with a blank line between them
C17_Witness ==
    /\ ParseCalled
    /\ Len(Split(arg, <<"\n">>)) = 3
    /\ AllWhitespace(Split(arg, <<"\n">>)[2])
    /\ Len(applied.value) = 2
    /\ applied.value[1].text # applied.value[2].text

\* C18: every page of a returned storybook has at least one DialogueLine in
\* lines, the page loop having no Narrator fallback of its own.
C18_EveryPageHasALine ==
    Succeeded =>
        \A p \in 1..Len(response.body.storybook) :
            Len(response.body.storybook[p].lines) >= 1

\* C18 witness: the storybook of Scenario A, a page of dialogue between two
\* pages of narration
C18_Witness ==
    /\ Succeeded
    /\ request.storyText = ScenarioA
    /\ Len(response.body.storybook) = 3
    /\ response.body.storybook[1].lines[1].speaker = Narrator
    /\ response.body.storybook[2].lines[1].speaker = <<"A","l","i","c","e">>

\* the position of the first colon of the line, 0 if it has none
FirstColon(line) ==
    LET colons == {i \in 1..Len(line) : line[i] = ":"}
    IN  IF colons = {} THEN 0 ELSE MinOf(colons)

\* the token of the claim in front of position c: a letter, then letters,
\* digits, "_", "-" and spaces, 49 characters at most
IsSpeakerToken(line, c) ==
    /\ c >= 2
    /\ c - 1 <= MaxSpeakerTail + 1
    /\ IsLetter(line[1])
    /\ \A i \in 2..(c - 1) : IsSpeakerChar(line[i])

\* arg is one line of the form <token> : <rest>
SpeakerLineForm ==
    /\ \A i \in 1..Len(arg) : arg[i] # "\n"
    /\ IsSpeakerToken(arg, FirstColon(arg))
    /\ FirstColon(arg) < Len(arg)

\* what the claim has parseSceneLines emit for such a line
SpeakerLineParsed ==
    LET c == FirstColon(arg)
    IN  applied.value =
            <<[speaker |-> Trim(SubSeq(arg, 1, c - 1)),
               text |-> Trim(SubSeq(arg, c + 1, Len(arg)))]>>

\* C19 as stated: for a line <token> : <rest> with a token as above and a
\* non-empty rest, parseSceneLines emits the trimmed token as speaker and all
\* that follows the first colon, trimmed, as text.
C19_SpeakerLineAnyRest ==
    (ParseCalled /\ SpeakerLineForm) => SpeakerLineParsed

\* the rest of the line, trimmed, has a character and no line terminator
RestIsText ==
    LET rest == Trim(SubSeq(arg, FirstColon(arg) + 1, Len(arg)))
    IN  /\ rest # <<>>
        /\ \A i \in 1..Len(rest) : ~IsLineTerminator(rest[i])

\* C19, amended: for a line <token> : <rest> with a token as above and a rest
\* that has a non-whitespace character and, trimmed, no line terminator,
\* parseSceneLines emits the trimmed token as speaker and all that follows
\* the first colon, trimmed, as text, later colons included; with any other
\* rest the line is a Narrator line carrying the whole trimmed line.
C19_SpeakerLine ==
    (ParseCalled /\ SpeakerLineForm) =>
        IF RestIsText
        THEN SpeakerLineParsed
        ELSE applied.value = IF Trim(arg) = <<>> THEN <<>>
                             ELSE <<[speaker |-> Narrator, text |-> Trim(arg)]>>

\* C19 witness: a speaker line with a second colon, which stays in the text
C19_Witness ==
    /\ ParseCalled
    /\ SpeakerLineForm
    /\ RestIsText
    /\ Len(applied.value) = 1
    /\ applied.value[1].speaker = <<"A">>
    /\ \E i \in 1..Len(applied.value[1].text) : applied.value[1].text[i] = ":"

\* the trimmed line has the shape of the speaker pattern: optional
\* whitespace, a speaker token, optional whitespace, the first colon, and
\* after it a stretch without line terminator that is not only whitespace
MatchesSpeakerPattern(line) ==
    LET c == FirstColon(line)
        head == Trim(SubSeq(line, 1, c - 1))
        rest == Trim(SubSeq(line, c + 1, Len(line)))
    IN  /\ c # 0
        /\ head # <<>>
        /\ IsLetter(head[1])
        /\ \E k \in 0..MaxSpeakerTail :
              /\ k < Len(head)
              /\ \A i \in 2..(k + 1) : IsSpeakerChar(head[i])
              /\ AllWhitespace(SubSeq(head, k + 2, Len(head)))
        /\ rest # <<>>
        /\ \A i \in 1..Len(rest) : ~IsLineTerminator(rest[i])

\* C20: every non-blank line that does not match the speaker pattern, a line
\* without colon in particular, is emitted as the Narrator line whose text is
\* the whole trimmed line.
C20_NarratorLine ==
    ParseCalled =>
        LET ls == NonBlankLines(arg)
        IN  /\ Len(applied.value) = Len(ls)
            /\ \A i \in 1..Len(ls) :
                  (FirstColon(ls[i]) = 0 \/ ~MatchesSpeakerPattern(Trim(ls[i])))
                      => applied.value[i] =
                             [speaker |-> Narrator, text |-> Trim(ls[i])]

\* C20 witness: a line with a colon whose prefix is no speaker token, read
\* with whitespace in front of it
C20_Witness ==
    /\ ParseCalled
    /\ Len(applied.value) = 1
    /\ IsWhitespace(arg[1])
    /\ FirstColon(arg) # 0
    /\ applied.value[1] = [speaker |-> Narrator, text |-> Trim(arg)]

\* C21: parseSceneLines called on the same scene any number of times, with
\* calls on other scenes in between, returns the same DialogueLines each time.
C21_ParsingIsStateless ==
    \A i, j \in 1..Len(history) :
        history[i].scene = history[j].scene =>
            history[i].lines = history[j].lines

\* C21 witness: a scene of dialogue parsed, another scene parsed, and the
\* first parsed again
C21_Witness ==
    /\ Len(history) = 3
    /\ history[1].scene = history[3].scene
    /\ history[2].scene # history[1].scene
    /\ history[1].lines # <<>>
    /\ history[1].lines[1].speaker # Narrator
    /\ history[2].lines[1].speaker # Narrator

\* the value of a base64 character ("=" counts as 0)
Base64Value(c) ==
    IF c = "=" THEN 0 ELSE (CHOOSE v \in 1..64 : Base64Chars[v] = c) - 1

\* the bytes a base64 text decodes to (what atob and the audio element read)
Atob(text) ==
    LET n == Len(text)
        pad == IF n = 0 THEN 0
               ELSE IF text[n - 1] = "=" THEN 2
               ELSE IF text[n] = "=" THEN 1 ELSE 0
        Val(i) == Base64Value(text[i])
        Byte(k) ==
            LET g == 4 * ((k - 1) \div 3)
                r == (k - 1) % 3
            IN  IF r = 0 THEN Val(g + 1) * 4 + Val(g + 2) \div 16
                ELSE IF r = 1
                THEN (Val(g + 2) % 16) * 16 + Val(g + 3) \div 4
                ELSE (Val(g + 3) % 4) * 64 + Val(g + 4)
    IN  [k \in 1..(3 * (n \div 4) - pad) |-> Byte(k)]

EncodeCalled == applied.fn = "encodeAudio"

\* C22: decoding audioBase64 gives back the bytes of the narration body, all
\* of them, once each and in order, whatever the length of the body: empty,
\* shorter than a chunk, a whole number of chunks, or chunks and a rest.
C22_AudioRoundTrip ==
    EncodeCalled => Atob(applied.value) = arg

\* C22 witness: a body of two chunks and one more byte was converted and
\* decodes to itself
C22_Witness ==
    /\ EncodeCalled
    /\ Len(arg) = 2 * chunkSize + 1
    /\ Atob(applied.value) = arg

\* the text before the first colon of the trimmed line t, trimmed
PrefixOf(t) == Trim(SubSeq(t, 1, FirstColon(t) - 1))

\* a speaker token as the claim has it: a letter first, then letters, digits,
\* underscore, hyphen and space, 49 characters at most
IsNamedSpeaker(p) ==
    /\ Len(p) \in 1..(MaxSpeakerTail + 1)
    /\ IsLetter(p[1])
    /\ \A i \in 1..Len(p) : IsSpeakerChar(p[i])

\* no whitespace at either end
IsTrimmed(p) == p = <<>> \/ (~IsWhitespace(p[1]) /\ ~IsWhitespace(p[Len(p)]))

\* C26: a line is given a named speaker only if the text before its first
\* colon, trimmed, is a speaker token of at most 49 characters, and the
\* speaker is then that token; every other line with a colon is a Narrator
\* line.  So every speaker emitted is Narrator or such a token, with no
\* whitespace at its ends.
C26_SpeakerOnlyFromToken ==
    ParseCalled =>
        LET ls == NonBlankLines(arg)
        IN  /\ Len(applied.value) = Len(ls)
            /\ \A i \in 1..Len(ls) :
                  LET t == Trim(ls[i])
                      speaker == applied.value[i].speaker
                  IN  /\ speaker # Narrator =>
                            /\ FirstColon(t) # 0
                            /\ IsNamedSpeaker(PrefixOf(t))
                            /\ speaker = PrefixOf(t)
                      /\ (FirstColon(t) # 0 /\ ~IsNamedSpeaker(PrefixOf(t)))
                            => speaker = Narrator
                      /\ speaker = Narrator
                            \/ (IsNamedSpeaker(speaker) /\ IsTrimmed(speaker))

\* C26 witness: a line whose token has 49 characters and is followed by
\* whitespace gets the token as its speaker
C26_Witness ==
    /\ ParseCalled
    /\ Len(applied.value) = 1
    /\ Len(applied.value[1].speaker) = MaxSpeakerTail + 1
    /\ FirstColon(arg) > MaxSpeakerTail + 2

\* C27: every DialogueLine emitted has a text that is not empty and has no
\* whitespace at its ends; a line that is a speaker token and a colon with
\* nothing after it is emitted as a Narrator line carrying the whole trimmed
\* line, not as that speaker with an empty text.
C27_TextNeverEmpty ==
    ParseCalled =>
        LET ls == NonBlankLines(arg)
        IN  /\ \A i \in 1..Len(applied.value) :
                  /\ applied.value[i].text # <<>>
                  /\ IsTrimmed(applied.value[i].text)
            /\ Len(applied.value) = Len(ls)
            /\ \A i \in 1..Len(ls) :
                  LET t == Trim(ls[i])
                  IN  (/\ FirstColon(t) = Len(t)
                       /\ IsNamedSpeaker(PrefixOf(t)))
                          => applied.value[i] =
                                 [speaker |-> Narrator, text |-> t]

\* C27 witness: "Alice :" and a tab is emitted as the Narrator line "Alice :"
C27_Witness ==
    /\ ParseCalled
    /\ arg = <<"A", "l", "i", "c", "e", " ", ":", "\t">>
    /\ applied.value =
           <<[speaker |-> Narrator,
              text |-> <<"A", "l", "i", "c", "e", " ", ":">>]>>

\* the calls made for page p
CallsOfPage(p, kind) ==
    {j \in 1..Len(calls) : calls[j].page = p /\ calls[j].kind = kind}

\* call j came back with a network error or a non-2xx status
CallFailed(j) == replies[j].kind = "networkError" \/ Non2xx(j)

\* C24: the handler makes its remote calls one after the other: at most one
\* call is unanswered at any time, the image call of a page is issued right
\* after the narration call of that page was answered, and a narration call
\* is issued only after every call of the pages before it was answered.
C24_RemoteCallsSequential ==
    /\ Len(calls) - Len(replies) \in {0, 1}
    /\ \A j \in 1..Len(calls) :
          /\ calls[j].kind = "illustrate" =>
                /\ j > 1
                /\ calls[j - 1].kind = "narrate"
                /\ calls[j - 1].page = calls[j].page
          /\ calls[j].kind = "narrate" =>
                /\ \A k \in 1..(j - 1) : calls[k].page < calls[j].page
                /\ \A q \in 1..(calls[j].page - 1) :
                      /\ CallsOfPage(q, "narrate") # {}
                      /\ strategy = "direct" => CallsOfPage(q, "illustrate") # {}

\* C24 witness: three pages narrated and illustrated in turn
C24_Witness ==
    /\ Succeeded
    /\ Len(replies) = 6
    /\ [j \in 1..6 |-> calls[j].kind] =
           <<"narrate", "illustrate", "narrate", "illustrate", "narrate",
             "illustrate">>
    /\ [j \in 1..6 |-> calls[j].page] = <<1, 1, 2, 2, 3, 3>>

\* C25: no remote call is made twice: the narration endpoint is called at
\* most once per page and the illustration endpoint at most once per page,
\* and a remote call that fails is the last remote call of the invocation.
C25_NoRetry ==
    /\ \A p \in 1..Len(scenes) :
          /\ Cardinality(CallsOfPage(p, "narrate")) <= 1
          /\ Cardinality(CallsOfPage(p, "illustrate")) <= 1
    /\ \A j \in 1..Len(replies) : CallFailed(j) => j = Len(calls)
    /\ Failed => Len(calls) = Len(replies)

\* C25 witness: the image call of page 2 failed and nothing was called after it
C25_Witness ==
    /\ Failed
    /\ Len(calls) = 4
    /\ calls[4].kind = "illustrate"
    /\ CallFailed(4)

\* the reply the handler was waiting for when it failed was a narration that
\* did not arrive, was rejected or could not be converted
NarrationFailedLast ==
    /\ replies # <<>>
    /\ calls[Len(replies)].kind = "narrate"
    /\ AudioError(replies[Len(replies)], index).thrown

\* C28: in a handler that opens a Runware connection, when the response is
\* returned disconnect() has been called on every connection that was
\* opened, after a narration failure, after an image failure and on
\* success; and after a narration failure the response carries the error of
\* the narration whether or not the disconnect in the catch succeeded.
C28_EveryConnectionDisconnected ==
    Done =>
        /\ runware = "connected" => closed
        /\ (Failed /\ NarrationFailedLast) =>
              response = CatchResponse(strategy,
                                       AudioError(replies[Len(replies)], index))

\* C23: when the audio of a page that is not the last one has played to its
\* end, the viewer shows the next page, with no click.
C23_AudioEndTurnsPage ==
    \A i \in 1..Len(turns) :
        (turns[i].event = "ended" /\ turns[i].from < turns[i].of - 1)
            => turns[i].to = turns[i].from + 1

\* C29: while <Storybook> is rendered with a storybook of one page or more,
\* currentPage is the index of one of its pages, so that pages[currentPage]
\* exists; a click on Next moves it up by one unless the last page is shown,
\* a click on Previous moves it down by one unless the first page is shown,
\* and then it stays.
C29_PageStaysInRange ==
    /\ (view \in {"storybook", "crashed"} /\ Len(pages) >= 1) =>
          currentPage \in 0..(Len(pages) - 1)
    /\ \A i \in 1..Len(turns) :
          /\ turns[i].from \in 0..(turns[i].of - 1)
          /\ turns[i].event = "next" =>
                turns[i].to = IF turns[i].from = turns[i].of - 1
                              THEN turns[i].from ELSE turns[i].from + 1
          /\ turns[i].event = "previous" =>
                turns[i].to = IF turns[i].from = 0
                              THEN 0 ELSE turns[i].from - 1

\* every invocation of handleImageSelect has returned
AllSettled ==
    /\ invocations # <<>>
    /\ \A i \in 1..Len(invocations) : invocations[i].awaiting = "settled"

\* C30: when handleImageSelect was invoked again while an earlier invocation
\* was awaiting a call, then once every invocation has settled the
\* description, story, storybook and error shown are those of the latest
\* invocation alone, all empty if it cleared the image; and loading is not
\* false while an invocation is awaiting a call.
C30_LatestInvocationWins ==
    /\ AllSettled =>
          \A field \in {"description", "story", "storybook", "error"} :
              app[field] \in {"", invocations[Len(invocations)].imageData}
    /\ (\E i \in 1..Len(invocations) : invocations[i].awaiting # "settled")
          => app.loading

=============================================================================
